---- MODULE Spec2Model ----
(***************************************************************************)
(* Model of services/geminiService.ts: the credential gate (ensureApiKey), *)
(* the image batch executor (generateImages) and the video job driver      *)
(* (generateVideo), with the host environment (window.aistudio,            *)
(* process.env.API_KEY) and the backend as nondeterministic collaborators. *)
(* Over the service, the handlers of App, ImageGenerator and               *)
(* VideoGenerator, with the user as a further nondeterministic             *)
(* collaborator.                                                           *)
(*                                                                         *)
(* JavaScript runs each synchronous stretch of code to completion; a step  *)
(* of the model is one such stretch: from an entry or the resumption of an *)
(* await up to the next await.                                             *)
(***************************************************************************)
EXTENDS Integers, Sequences, FiniteSets, TLC

VARIABLES
    aistudio,      \* window.aistudio exists
    keySelected,   \* the environment's "a paid key is selected" flag
    apiKey,        \* process.env.API_KEY
    gatePc,        \* per caller: position inside ensureApiKey
    gateInvoked,   \* per caller: number of ensureApiKey invocations
    hasKeyCalls,   \* number of aistudio.hasSelectedApiKey() calls
    openCalls,     \* number of aistudio.openSelectKey() calls
    openReturns,   \* number of openSelectKey() calls that have resolved
    ipc,           \* position of generateImages
    count,         \* generateImages argument
    options,       \* generateImages argument
    backend,       \* the outcomes the backend can give to generateContent
    nextCall,      \* index of the next element Array.map visits
    requests,      \* generateContent requests issued, in issue order
    callState,     \* per call: "unissued", "inflight", "fulfilled", "rejected"
    callValue,     \* per call: the data URL returned or the error thrown
    callResponse,  \* per call: what the backend answered (Undefined before)
    settleOrder,   \* the calls in the order their answers arrived
    imgResult,     \* the promise generateImages returned to its caller
    vpc,           \* position of generateVideo
    voptions,      \* generateVideo argument
    operation,     \* the local variable `operation`: the current job handle
    received,      \* the backend's answers to generateVideo's calls, in order
    submits,       \* generateVideos payloads submitted, in order
    sleeps,        \* setTimeout delays slept, in order
    polls,         \* getVideosOperation calls: the handle each was keyed by
    outstanding,   \* poll calls issued and not yet returned
    vidResult,     \* the promise generateVideo returned to its caller
    refImages,     \* ImageGenerator state: the reference-image list
    reading,       \* handleRefUpload invocations awaiting fileToBase64
    now,           \* Date.now()
    activeTab,     \* App state: the tab that is shown
    edits,         \* number of form edits, deletions and tab switches so far
    prompt,        \* ImageGenerator state
    aspectRatio,   \* ImageGenerator state
    resolution,    \* ImageGenerator state
    outputCount,   \* ImageGenerator state
    customWidth,   \* ImageGenerator state
    customHeight,  \* ImageGenerator state
    contextImage,  \* ImageGenerator state
    dirHandle,     \* ImageGenerator state: the folder chosen for auto-save
    isEditing,     \* ImageGenerator state: the mode toggle
    showCanvas,    \* ImageGenerator state
    tempContextImgSrc, \* ImageGenerator state: data URL of the uploaded context
    viewMode,      \* ImageGenerator state: "current" or "history"
    ctxReading,    \* handleContextUpload invocations awaiting fileToBase64
    loading,       \* ImageGenerator state
    currentBatch,  \* ImageGenerator state
    history,       \* ImageGenerator state
    gpc,           \* position of ImageGenerator's handleGenerate
    closure,       \* the state values the running handleGenerate was created with
    newItems,      \* handleGenerate's local list of items built so far
    clicks,        \* number of clicks on ImageGenerator's generate button
    genCalls,      \* number of generateImages calls made by ImageGenerator
    historyBefore, \* the history at the last click that called generateImages
    stale,         \* calls of rejected batches still in flight, by index
    vprompt,       \* VideoGenerator state `prompt`
    vinputImage,   \* VideoGenerator state `inputImage`
    vaspectRatio,  \* VideoGenerator state `aspectRatio`
    vidReading,    \* handleImageUpload invocations awaiting fileToBase64
    vloading,      \* VideoGenerator state `loading`
    videoUrl,      \* VideoGenerator state
    vgpc,          \* position of VideoGenerator's handleGenerate
    vidCalls,      \* number of generateVideo calls made by VideoGenerator
    clients,       \* number of GoogleGenAI clients created
    errorLog       \* console.error calls, in order: the errors logged

envVars  == <<aistudio, keySelected, apiKey>>
gateVars == <<gatePc, gateInvoked, hasKeyCalls, openCalls, openReturns>>
imgVars  == <<ipc, count, options, backend, nextCall, requests,
              callState, callValue, callResponse, settleOrder, imgResult>>
vidVars  == <<vpc, voptions, operation, received, submits, sleeps, polls,
              outstanding, vidResult>>
formVars == <<prompt, aspectRatio, resolution, outputCount, customWidth,
              customHeight, contextImage, dirHandle, isEditing, showCanvas,
              tempContextImgSrc, viewMode, ctxReading>>
runVars  == <<loading, currentBatch, history, gpc, closure, newItems, clicks,
              genCalls, historyBefore, stale>>
genVars  == <<formVars, runVars>>
vformVars == <<vprompt, vinputImage, vaspectRatio, vidReading>>
vrunVars == <<vloading, videoUrl, vgpc, vidCalls>>
vgenVars == <<vformVars, vrunVars>>
uiVars   == <<refImages, reading, now, activeTab, edits, genVars, vgenVars>>
vars     == <<envVars, gateVars, imgVars, vidVars, uiVars, clients, errorLog>>

----------------------------------------------------------------------------
(* Bounds of the model *)

MaxCount == 3          \* largest batch size explored in the batch slice
MaxPayloadCount == 2   \* largest batch size explored in the payload slice
MaxRefs == 2           \* longest reference-image list explored
MaxPolls == 3          \* most status-refresh calls explored for one job
MaxParts == 2          \* most parts in a response of the extraction slice
MaxExtractCount == 1   \* largest batch size explored in the extraction slice
MaxReading == 2        \* most file reads in progress together
MaxTime == 2           \* latest clock value explored
MaxEvents == 4         \* most user events: edits, uploads, tab switches, clicks

----------------------------------------------------------------------------
(* JavaScript values and the conversions the code applies to them *)

Undefined == [t |-> "undefined"]
Null == [t |-> "null"]
Num(n) == [t |-> "number", v |-> n]
Str(s) == [t |-> "string", v |-> s]
Image(b, m) == [t |-> "object", base64 |-> b, mimeType |-> m]

\* ToBoolean, as applied by `if (x)`, `a && b`, `!x` and `a || b`.
Truthy(a) ==
    CASE a.t = "number" -> a.v # 0
      [] a.t = "string" -> a.v # ""
      [] a.t = "object" -> TRUE
      [] OTHER          -> FALSE

Digit(d) ==
    CASE d = 0 -> "0" [] d = 1 -> "1" [] d = 2 -> "2" [] d = 3 -> "3"
      [] d = 4 -> "4" [] d = 5 -> "5" [] d = 6 -> "6" [] d = 7 -> "7"
      [] d = 8 -> "8" [] d = 9 -> "9"

RECURSIVE Dec(_)
Dec(n) == IF n < 10 THEN Digit(n) ELSE Dec(n \div 10) \o Digit(n % 10)

\* ToString, as applied by a template literal `${x}`.
ToStr(a) ==
    CASE a.t = "number" -> IF a.v < 0 THEN "-" \o Dec(0 - a.v) ELSE Dec(a.v)
      [] a.t = "string" -> a.v
      [] OTHER          -> "undefined"

----------------------------------------------------------------------------
(* Program constants *)

MODEL_NANO_BANANA == "gemini-2.5-flash-image"
MODEL_PRO_IMAGE   == "gemini-3-pro-image-preview"
MODEL_VEO_FAST    == "veo-3.1-fast-generate-preview"
POLL_INTERVAL_MS  == 5000

AR_SQUARE    == "1:1"
AR_STANDARD  == "4:3"
AR_LANDSCAPE == "16:9"
AR_PORTRAIT  == "9:16"
AR_CUSTOM    == "CUSTOM"
AspectRatio  == {AR_SQUARE, AR_STANDARD, AR_LANDSCAPE, AR_PORTRAIT, AR_CUSTOM}

RES_1K == "1K"
RES_2K == "2K"
RES_4K == "4K"
ImageResolution == {RES_1K, RES_2K, RES_4K}

RES_720P == "720p"

Callers == {"image", "video"}

----------------------------------------------------------------------------
(* Credential gate: ensureApiKey *)

\* Variant: the gate returns at once when the selection mechanism exists.
GateEnterInverted(c) ==
    /\ gateInvoked' = [gateInvoked EXCEPT ![c] = @ + 1]
    /\ IF ~aistudio
         THEN /\ gatePc' = [gatePc EXCEPT ![c] = "hasSelectedApiKey"]
              /\ hasKeyCalls' = hasKeyCalls + 1
         ELSE /\ gatePc' = [gatePc EXCEPT ![c] = "done"]
              /\ UNCHANGED hasKeyCalls
    /\ UNCHANGED <<openCalls, openReturns>>

\* `await ensureApiKey()` in caller c: the call runs up to its first await.
GateEnter(c) ==
    /\ gateInvoked' = [gateInvoked EXCEPT ![c] = @ + 1]
    /\ IF aistudio
         THEN /\ gatePc' = [gatePc EXCEPT ![c] = "hasSelectedApiKey"]
              /\ hasKeyCalls' = hasKeyCalls + 1
         ELSE /\ gatePc' = [gatePc EXCEPT ![c] = "done"]
              /\ UNCHANGED hasKeyCalls
    /\ UNCHANGED <<openCalls, openReturns>>

\* Variant: openSelectKey() is called and not awaited.
GateHasKeyReturnsNoAwait(c) ==
    /\ gatePc[c] = "hasSelectedApiKey"
    /\ gatePc' = [gatePc EXCEPT ![c] = "done"]
    /\ openCalls' = IF ~keySelected THEN openCalls + 1 ELSE openCalls
    /\ UNCHANGED <<gateInvoked, hasKeyCalls, openReturns>>
    /\ UNCHANGED <<uiVars, envVars, imgVars, vidVars, clients, errorLog>>

\* hasSelectedApiKey() resolves with the environment's flag.
GateHasKeyReturns(c) ==
    /\ gatePc[c] = "hasSelectedApiKey"
    /\ IF ~keySelected
         THEN /\ gatePc' = [gatePc EXCEPT ![c] = "openSelectKey"]
              /\ openCalls' = openCalls + 1
         ELSE /\ gatePc' = [gatePc EXCEPT ![c] = "done"]
              /\ UNCHANGED openCalls
    /\ UNCHANGED <<gateInvoked, hasKeyCalls, openReturns>>
    /\ UNCHANGED <<uiVars, envVars, imgVars, vidVars, clients, errorLog>>

\* openSelectKey() resolves once the selection flow has completed.
GateOpenReturns(c) ==
    /\ gatePc[c] = "openSelectKey"
    /\ keySelected' = TRUE
    /\ openReturns' = openReturns + 1
    /\ gatePc' = [gatePc EXCEPT ![c] = "done"]
    /\ UNCHANGED <<aistudio, apiKey, gateInvoked, hasKeyCalls, openCalls>>
    /\ UNCHANGED <<uiVars, imgVars, vidVars, clients, errorLog>>

----------------------------------------------------------------------------
(* Request assembly of generateImages *)

\* Variant: only the top tier counts as Pro.
UsePro4KOnly(opts) == opts.resolution = RES_4K

UsePro(opts) == opts.resolution # RES_1K

\* Variant: the two models are swapped between the tiers.
ModelNameSwapped(usePro) == IF usePro THEN MODEL_NANO_BANANA ELSE MODEL_PRO_IMAGE

ModelName(usePro) == IF usePro THEN MODEL_PRO_IMAGE ELSE MODEL_NANO_BANANA

InlinePart(img) == [inlineData |-> [data |-> img.base64, mimeType |-> img.mimeType]]

TextPart(s) == [text |-> s]

\* Variant: the prompt is pushed before the images.
BuildPartsPromptFirst(opts) ==
    LET refParts == [k \in 1..Len(opts.refImages) |-> InlinePart(opts.refImages[k])]
        ctxParts == IF Truthy(opts.contextImage)
                      THEN <<InlinePart(opts.contextImage)>>
                      ELSE <<>>
    IN  <<TextPart(opts.prompt)>> \o refParts \o ctxParts

BuildParts(opts) ==
    LET refParts == [k \in 1..Len(opts.refImages) |-> InlinePart(opts.refImages[k])]
        ctxParts == IF Truthy(opts.contextImage)
                      THEN <<InlinePart(opts.contextImage)>>
                      ELSE <<>>
    IN  refParts \o ctxParts \o <<TextPart(opts.prompt)>>

Abs(n) == IF n < 0 THEN 0 - n ELSE n

RECURSIVE Gcd(_, _)
Gcd(a, b) == IF b = 0 THEN a ELSE Gcd(b, a % b)

\* Variant: custom dimensions are reduced to lowest terms.
RatioStrReduced(opts) ==
    IF opts.aspectRatio = AR_CUSTOM
      THEN IF Truthy(opts.width) /\ Truthy(opts.height)
             THEN LET g == Gcd(Abs(opts.width.v), Abs(opts.height.v))
                  IN  ToStr(Num(opts.width.v \div g)) \o ":"
                      \o ToStr(Num(opts.height.v \div g))
             ELSE "1:1"
      ELSE opts.aspectRatio

RatioStr(opts) ==
    IF opts.aspectRatio = AR_CUSTOM
      THEN IF Truthy(opts.width) /\ Truthy(opts.height)
             THEN ToStr(opts.width) \o ":" \o ToStr(opts.height)
             ELSE "1:1"
      ELSE opts.aspectRatio

\* Variant: the image size is sent whatever the model.
BuildConfigAlwaysSize(opts) ==
    [imageConfig |-> [aspectRatio |-> RatioStr(opts), imageSize |-> opts.resolution]]

BuildConfig(opts) ==
    IF UsePro(opts)
      THEN [imageConfig |-> [aspectRatio |-> RatioStr(opts), imageSize |-> opts.resolution]]
      ELSE [imageConfig |-> [aspectRatio |-> RatioStr(opts)]]

BuildRequest(opts) ==
    [model    |-> ModelName(UsePro(opts)),
     contents |-> [parts |-> BuildParts(opts)],
     config   |-> BuildConfig(opts)]

----------------------------------------------------------------------------
(* Backend outcomes of generateContent and result extraction *)

\* A part of a response; absent string fields are "".
ResponsePart(hasInline, data, mimeType, text) ==
    [hasInline |-> hasInline, data |-> data, mimeType |-> mimeType, text |-> text]

\* A response whose candidates[0].content.parts exists.
Response(parts) == [kind |-> "response", hasParts |-> TRUE, parts |-> parts]

\* A response with no candidates, no content or no parts.
EmptyResponse == [kind |-> "response", hasParts |-> FALSE, parts |-> <<>>]

\* generateContent rejects.
BackendFailure == [kind |-> "error", hasParts |-> FALSE, parts |-> <<>>]

\* Variant: the last part with inline data is taken.
RECURSIVE LastInline(_, _)
LastInline(parts, k) ==
    IF k > Len(parts) THEN 0
    ELSE LET rest == LastInline(parts, k + 1)
         IN  IF rest # 0 THEN rest
             ELSE IF parts[k].hasInline /\ parts[k].data # "" THEN k
             ELSE 0

RECURSIVE FirstInline(_, _)
FirstInline(parts, k) ==
    IF k > Len(parts) THEN 0
    ELSE IF parts[k].hasInline /\ parts[k].data # "" THEN k
    ELSE FirstInline(parts, k + 1)

\* Variant: the catch block throws a new error in place of the one it caught.
CallOutcomeWrapped(i, r) ==
    IF r.kind = "error"
      THEN [state |-> "rejected",
            value |-> [name |-> "Image generation failed", call |-> i]]
    ELSE LET k == IF r.hasParts THEN FirstInline(r.parts, 1) ELSE 0
         IN  IF k # 0
               THEN [state |-> "fulfilled",
                     value |-> "data:"
                               \o (IF r.parts[k].mimeType # "" THEN r.parts[k].mimeType
                                                              ELSE "image/png")
                               \o ";base64," \o r.parts[k].data]
               ELSE [state |-> "rejected",
                     value |-> [name |-> "No image data found in response", call |-> i]]

\* The body of one mapped call after its await: the value it returns or throws.
CallOutcome(i, r) ==
    IF r.kind = "error"
      THEN [state |-> "rejected", value |-> [name |-> "BackendCallError", call |-> i]]
    ELSE LET k == IF r.hasParts THEN FirstInline(r.parts, 1) ELSE 0
         IN  IF k # 0
               THEN [state |-> "fulfilled",
                     value |-> "data:"
                               \o (IF r.parts[k].mimeType # "" THEN r.parts[k].mimeType
                                                              ELSE "image/png")
                               \o ";base64," \o r.parts[k].data]
               ELSE [state |-> "rejected",
                     value |-> [name |-> "No image data found in response", call |-> i]]

Pending == [status |-> "pending"]
Fulfilled(v) == [status |-> "fulfilled", value |-> v]
Rejected(e) == [status |-> "rejected", reason |-> e]

\* Variant: Promise.allSettled read as a result list; never rejects.
PromiseAllSettled(cur, st, val, i) ==
    IF cur.status # "pending" THEN cur
    ELSE IF \A j \in DOMAIN st : st[j] \in {"fulfilled", "rejected"} THEN Fulfilled(val)
    ELSE cur

\* Variant: waits for every promise to settle before it rejects.
PromiseAllWaits(cur, st, val, i) ==
    IF cur.status # "pending" THEN cur
    ELSE IF \E j \in DOMAIN st : st[j] \in {"unissued", "inflight"} THEN cur
    ELSE IF \E j \in DOMAIN st : st[j] = "rejected"
           THEN Rejected(val[CHOOSE j \in DOMAIN st : st[j] = "rejected"])
    ELSE Fulfilled(val)

\* Variant: the values are listed in the order the promises fulfilled.
PromiseAllCompletionOrder(cur, st, val, i) ==
    IF cur.status # "pending" THEN cur
    ELSE IF st[i] = "rejected" THEN Rejected(val[i])
    ELSE IF \A j \in DOMAIN st : st[j] = "fulfilled"
           THEN LET order == Append(settleOrder, i)
                IN  Fulfilled([k \in 1..Len(order) |-> val[order[k]]])
    ELSE cur

\* Promise.all(promises), after promises[i] has settled: the first rejection
\* rejects it at once; it fulfils when every promise has fulfilled.
PromiseAll(cur, st, val, i) ==
    IF cur.status # "pending" THEN cur
    ELSE IF st[i] = "rejected" THEN Rejected(val[i])
    ELSE IF \A j \in DOMAIN st : st[j] = "fulfilled" THEN Fulfilled(val)
    ELSE cur

----------------------------------------------------------------------------
(* generateImages *)

\* Entry: usePro is computed; for the Pro model the gate is awaited, else
\* getClient() is called, which creates the client, and awaited.
GenerateImagesEnter ==
    /\ ipc = "start"
    /\ IF UsePro(options)
         THEN /\ GateEnter("image")
              /\ ipc' = "ensureApiKey"
              /\ UNCHANGED clients
         ELSE /\ ipc' = "getClient"
              /\ clients' = clients + 1
              /\ UNCHANGED gateVars
    /\ UNCHANGED <<count, options, backend, nextCall, requests,
                   callState, callValue, callResponse, settleOrder,
                   imgResult, errorLog>>
    /\ UNCHANGED <<uiVars, envVars, vidVars>>

\* `await ensureApiKey()` resumes: getClient() is called, which creates the
\* client, and awaited.
ImgGateDone ==
    /\ ipc = "ensureApiKey"
    /\ gatePc["image"] = "done"
    /\ ipc' = "getClient"
    /\ clients' = clients + 1
    /\ UNCHANGED <<count, options, backend, nextCall, requests,
                   callState, callValue, callResponse, settleOrder,
                   imgResult, errorLog>>
    /\ UNCHANGED <<uiVars, envVars, gateVars, vidVars>>

\* `await getClient()` resumes; Array.map starts.
ImgGetClient ==
    /\ ipc = "getClient"
    /\ nextCall' = 1
    /\ ipc' = "map"
    /\ UNCHANGED <<count, options, backend, clients, requests,
                   callState, callValue, callResponse, settleOrder,
                   imgResult, errorLog>>
    /\ UNCHANGED <<uiVars, envVars, gateVars, vidVars>>

\* One mapped callback runs up to `await client.models.generateContent(...)`.
ImgIssueCall ==
    /\ ipc = "map"
    /\ nextCall <= count
    /\ requests' = Append(requests, BuildRequest(options))
    /\ callState' = [callState EXCEPT ![nextCall] = "inflight"]
    /\ nextCall' = nextCall + 1
    /\ UNCHANGED <<ipc, count, options, backend, clients, callValue,
                   callResponse, settleOrder, imgResult, errorLog>>
    /\ UNCHANGED <<uiVars, envVars, gateVars, vidVars>>

\* map is over: `return Promise.all(promises)`.
ImgAwaitAll ==
    /\ ipc = "map"
    /\ nextCall > count
    /\ ipc' = "awaitAll"
    /\ UNCHANGED <<count, options, backend, clients, nextCall, requests,
                   callState, callValue, callResponse, settleOrder,
                   imgResult, errorLog>>
    /\ UNCHANGED <<uiVars, envVars, gateVars, vidVars>>

\* The backend answers call i with r: the callback resumes, returns or throws
\* (logging what it throws), and Promise.all reacts.
ImgCallSettles(i, r) ==
    /\ ipc \in {"awaitAll", "returned"}
    /\ i \in 1..count
    /\ callState[i] = "inflight"
    /\ r \in backend
    /\ LET out == CallOutcome(i, r)
           st  == [callState EXCEPT ![i] = out.state]
           val == [callValue EXCEPT ![i] = out.value]
           res == PromiseAll(imgResult, st, val, i)
       IN  /\ callState' = st
           /\ callValue' = val
           /\ callResponse' = [callResponse EXCEPT ![i] = r]
           /\ settleOrder' = Append(settleOrder, i)
           /\ errorLog' = IF out.state = "rejected"
                            THEN Append(errorLog, out.value)
                            ELSE errorLog
           /\ imgResult' = res
           /\ ipc' = IF res.status # "pending" THEN "returned" ELSE ipc
    /\ UNCHANGED <<count, options, backend, clients, nextCall, requests>>
    /\ UNCHANGED <<uiVars, envVars, gateVars, vidVars>>

----------------------------------------------------------------------------
(* Backend outcomes of generateVideos / getVideosOperation *)

\* A job handle: `done`, response?.generatedVideos?.[0]?.video?.uri and whether
\* it carries a failure indication (`error`); id tells the handles apart.
Handle(id, done, uri, error) ==
    [id |-> id, done |-> done, uri |-> uri, error |-> error, failed |-> FALSE]

\* The answer of a call that rejected: no handle.
NoHandle(id) ==
    [id |-> id, done |-> FALSE, uri |-> Undefined, error |-> FALSE, failed |-> TRUE]

VIDEO_URI == "https://backend/files/v1:download?alt=media"

\* What a submission or a status refresh can answer, but for the handle's id.
HandleKinds ==
    { [done |-> FALSE, uri |-> Undefined,      error |-> FALSE],
      [done |-> TRUE,  uri |-> Str(VIDEO_URI), error |-> FALSE],
      [done |-> TRUE,  uri |-> Undefined,      error |-> FALSE],
      [done |-> TRUE,  uri |-> Str(""),        error |-> FALSE],
      [done |-> TRUE,  uri |-> Undefined,      error |-> TRUE] }

BuildVideoPayload(opts) ==
    LET config == [numberOfVideos |-> 1,
                   resolution     |-> RES_720P,
                   aspectRatio    |-> opts.aspectRatio]
    IN  IF Truthy(opts.inputImage)
          THEN [model  |-> MODEL_VEO_FAST,
                prompt |-> opts.prompt,
                config |-> config,
                image  |-> [imageBytes |-> opts.inputImage.base64,
                            mimeType   |-> opts.inputImage.mimeType]]
          ELSE [model  |-> MODEL_VEO_FAST,
                prompt |-> opts.prompt,
                config |-> config]

\* Variant: the reference is returned as the backend gave it.
VideoUrlNoKey(uri, key) == ToStr(uri)

\* The value generateVideo returns for a video reference.
VideoUrl(uri, key) == ToStr(uri) \o "&key=" \o ToStr(key)

\* Variant: the reference is returned without testing that there is one.
ExtractVideoUnchecked(op, key) == Fulfilled(VideoUrl(op.uri, key))

\* After the poll loop: the reference is extracted, or the driver throws.
ExtractVideo(op, key) ==
    IF ~Truthy(op.uri)
      THEN Rejected([name |-> "No video URI in response", call |-> op.id])
      ELSE Fulfilled(VideoUrl(op.uri, key))

----------------------------------------------------------------------------
(* generateVideo *)

\* Entry: the gate is awaited.
GenerateVideoEnter ==
    /\ vpc = "start"
    /\ GateEnter("video")
    /\ vpc' = "ensureApiKey"
    /\ UNCHANGED <<voptions, operation, received, submits, sleeps, polls,
                   outstanding, vidResult>>
    /\ UNCHANGED <<uiVars, envVars, imgVars, clients, errorLog>>

\* Variant: ensureApiKey() is called without await.
VidGateNotAwaited ==
    /\ vpc = "ensureApiKey"
    /\ vpc' = "getClient"
    /\ clients' = clients + 1
    /\ UNCHANGED <<voptions, operation, received, submits, sleeps, polls,
                   outstanding, vidResult>>
    /\ UNCHANGED <<uiVars, envVars, gateVars, imgVars, errorLog>>

\* `await ensureApiKey()` resumes: getClient() is called, which creates the
\* client, and awaited.
VidGateDone ==
    /\ vpc = "ensureApiKey"
    /\ gatePc["video"] = "done"
    /\ vpc' = "getClient"
    /\ clients' = clients + 1
    /\ UNCHANGED <<voptions, operation, received, submits, sleeps, polls,
                   outstanding, vidResult>>
    /\ UNCHANGED <<uiVars, envVars, gateVars, imgVars, errorLog>>

\* `await getClient()` resumes: the payload is built and generateVideos called.
VidSubmit ==
    /\ vpc = "getClient"
    /\ submits' = Append(submits, BuildVideoPayload(voptions))
    /\ vpc' = "generateVideos"
    /\ UNCHANGED <<voptions, operation, received, sleeps, polls, outstanding, vidResult>>
    /\ UNCHANGED <<uiVars, envVars, gateVars, imgVars, clients, errorLog>>

\* The catch block: the error is logged and rethrown to the caller.
VidCatch(e) ==
    /\ errorLog' = Append(errorLog, e)
    /\ vidResult' = Rejected(e)
    /\ vpc' = "returned"

\* generateVideos resolves with the job's first handle.
SubmitReturns(h) ==
    /\ vpc = "generateVideos"
    /\ h \in HandleKinds
    /\ operation' = Handle(Len(received) + 1, h.done, h.uri, h.error)
    /\ received' = Append(received, operation')
    /\ vpc' = "loop"
    /\ UNCHANGED <<voptions, submits, sleeps, polls, outstanding, vidResult>>
    /\ UNCHANGED <<uiVars, envVars, gateVars, imgVars, clients, errorLog>>

\* generateVideos rejects.
SubmitFails ==
    /\ vpc = "generateVideos"
    /\ received' = Append(received, NoHandle(Len(received) + 1))
    /\ VidCatch([name |-> "BackendCallError", call |-> 0])
    /\ UNCHANGED <<voptions, operation, submits, sleeps, polls, outstanding>>
    /\ UNCHANGED <<uiVars, envVars, gateVars, imgVars, clients>>

\* Variant: the loop gives up after two status refreshes.
VidLoopGivesUp ==
    /\ vpc = "loop"
    /\ IF ~operation.done
         THEN IF Len(polls) >= 2
                THEN VidCatch([name |-> "Timeout", call |-> Len(polls)])
                ELSE /\ vpc' = "sleep"
                     /\ UNCHANGED <<vidResult, errorLog>>
         ELSE LET res == ExtractVideo(operation, apiKey)
              IN  IF res.status = "rejected"
                    THEN VidCatch(res.reason)
                    ELSE /\ vidResult' = res
                         /\ vpc' = "returned"
                         /\ UNCHANGED errorLog
    /\ UNCHANGED <<voptions, operation, received, submits, sleeps, polls, outstanding>>
    /\ UNCHANGED <<uiVars, envVars, gateVars, imgVars, clients>>

\* `while (!operation.done)`: the timer is set, or the loop is left and the
\* result extracted.
VidLoop ==
    /\ vpc = "loop"
    /\ IF ~operation.done
         THEN /\ vpc' = "sleep"
              /\ UNCHANGED <<vidResult, errorLog>>
         ELSE LET res == ExtractVideo(operation, apiKey)
              IN  IF res.status = "rejected"
                    THEN VidCatch(res.reason)
                    ELSE /\ vidResult' = res
                         /\ vpc' = "returned"
                         /\ UNCHANGED errorLog
    /\ UNCHANGED <<voptions, operation, received, submits, sleeps, polls, outstanding>>
    /\ UNCHANGED <<uiVars, envVars, gateVars, imgVars, clients>>

\* Variant: every status refresh is keyed by the submission's handle.
VidSleepDoneFirstHandle ==
    /\ vpc = "sleep"
    /\ Len(polls) < MaxPolls
    /\ sleeps' = Append(sleeps, POLL_INTERVAL_MS)
    /\ polls' = Append(polls, received[1].id)
    /\ outstanding' = outstanding + 1
    /\ vpc' = "getVideosOperation"
    /\ UNCHANGED <<voptions, operation, received, submits, vidResult>>
    /\ UNCHANGED <<uiVars, envVars, gateVars, imgVars, clients, errorLog>>

\* The timer fires after the interval: the status refresh is issued, keyed by
\* the current handle.
VidSleepDone ==
    /\ vpc = "sleep"
    /\ Len(polls) < MaxPolls
    /\ sleeps' = Append(sleeps, POLL_INTERVAL_MS)
    /\ polls' = Append(polls, operation.id)
    /\ outstanding' = outstanding + 1
    /\ vpc' = "getVideosOperation"
    /\ UNCHANGED <<voptions, operation, received, submits, vidResult>>
    /\ UNCHANGED <<uiVars, envVars, gateVars, imgVars, clients, errorLog>>

\* getVideosOperation resolves with a refreshed handle.
PollReturns(h) ==
    /\ vpc = "getVideosOperation"
    /\ h \in HandleKinds
    /\ operation' = Handle(Len(received) + 1, h.done, h.uri, h.error)
    /\ received' = Append(received, operation')
    /\ outstanding' = outstanding - 1
    /\ vpc' = "loop"
    /\ UNCHANGED <<voptions, submits, sleeps, polls, vidResult>>
    /\ UNCHANGED <<uiVars, envVars, gateVars, imgVars, clients, errorLog>>

\* Variant: a failed status refresh is logged and retried after the interval.
PollFailsRetry ==
    /\ vpc = "getVideosOperation"
    /\ outstanding' = outstanding - 1
    /\ received' = Append(received, NoHandle(Len(received) + 1))
    /\ errorLog' = Append(errorLog, [name |-> "BackendCallError", call |-> Len(polls)])
    /\ vpc' = "sleep"
    /\ UNCHANGED <<voptions, operation, submits, sleeps, polls, vidResult>>
    /\ UNCHANGED <<uiVars, envVars, gateVars, imgVars, clients>>

\* getVideosOperation rejects.
PollFails ==
    /\ vpc = "getVideosOperation"
    /\ outstanding' = outstanding - 1
    /\ received' = Append(received, NoHandle(Len(received) + 1))
    /\ VidCatch([name |-> "BackendCallError", call |-> Len(polls)])
    /\ UNCHANGED <<voptions, operation, submits, sleeps, polls>>
    /\ UNCHANGED <<uiVars, envVars, gateVars, imgVars, clients>>

----------------------------------------------------------------------------
(* ImageGenerator: the reference-image list *)

\* The limit handleRefUpload tests the list's length against.
REF_LIMIT == 10

\* The entry handleRefUpload appends for a file read at time t.
RefEntry(file, t) ==
    [base64 |-> file.base64, mimeType |-> file.mimeType, id |-> ToStr(Num(t))]

\* setRefImages(prev => [...prev, entry])
AppendRef(prev, entry) == Append(prev, entry)

\* setRefImages(prev => prev.filter(p => p.id !== id))
RemoveById(prev, id) == SelectSeq(prev, LAMBDA p : p.id # id)

\* refImages.map(r => ({ base64: r.base64, mimeType: r.mimeType })): the list
\* handleGenerate passes to generateImages.
RefsPassed == [k \in 1..Len(refImages) |-> Image(refImages[k].base64, refImages[k].mimeType)]

\* A file is chosen in the reference section, which is rendered only outside
\* the editing mode: handleRefUpload runs up to `await fileToBase64(file)`,
\* or returns at once when the list it sees is full.
HandleRefUpload ==
    /\ ~isEditing
    /\ reading < MaxReading
    /\ reading' = IF Len(refImages) >= REF_LIMIT THEN reading ELSE reading + 1
    /\ UNCHANGED <<refImages, now>>
    /\ UNCHANGED <<activeTab, genVars, vgenVars, envVars, gateVars, imgVars, vidVars, clients, errorLog>>

\* fileToBase64 resolves: the entry is appended by a functional update.
RefReadDone ==
    /\ reading > 0
    /\ reading' = reading - 1
    /\ refImages' = AppendRef(refImages, RefEntry(Image("AAAA", "image/png"), now))
    /\ UNCHANGED now
    /\ UNCHANGED <<activeTab, edits, genVars, vgenVars, envVars, gateVars, imgVars, vidVars, clients, errorLog>>

\* fileToBase64 rejects: handleRefUpload ends without an update.
RefReadFails ==
    /\ reading > 0
    /\ reading' = reading - 1
    /\ UNCHANGED <<refImages, now>>
    /\ UNCHANGED <<activeTab, edits, genVars, vgenVars, envVars, gateVars, imgVars, vidVars, clients, errorLog>>

\* The remove button of the k-th thumbnail, rendered with the reference
\* section, is clicked.
RemoveRef(k) ==
    /\ ~isEditing
    /\ k \in 1..Len(refImages)
    /\ refImages' = RemoveById(refImages, refImages[k].id)
    /\ UNCHANGED <<reading, now>>
    /\ UNCHANGED <<activeTab, genVars, vgenVars, envVars, gateVars, imgVars, vidVars, clients, errorLog>>

\* A millisecond passes.
Tick ==
    /\ now < MaxTime
    /\ now' = now + 1
    /\ UNCHANGED <<refImages, reading>>
    /\ UNCHANGED <<activeTab, edits, genVars, vgenVars, envVars, gateVars, imgVars, vidVars, clients, errorLog>>

----------------------------------------------------------------------------
(* Inputs *)

ImgA == Image("AAAA", "image/png")
ImgB == Image("BBBB", "image/jpeg")
ImgC == Image("CCCC", "image/webp")

RefLists == UNION { [1..n -> {ImgA, ImgB}] : n \in 0..MaxRefs }

Dims == {Undefined, Num(0), Num(-3), Num(720), Num(1280)}

ImageOptions(p, ar, w, h, res, refs, ctx) ==
    [prompt |-> p, aspectRatio |-> ar, width |-> w, height |-> h,
     resolution |-> res, refImages |-> refs, contextImage |-> ctx]

\* Every shape of request: enumerated ratios with the form's default
\* dimensions, custom ratios with every pair of dimensions.
AllImageOptions ==
    { ImageOptions(p, ar, Num(1024), Num(1024), res, refs, ctx) :
        p \in {"", "p"}, ar \in AspectRatio \ {AR_CUSTOM}, res \in ImageResolution,
        refs \in RefLists, ctx \in {Undefined, ImgC} }
    \cup
    { ImageOptions(p, AR_CUSTOM, wh[1], wh[2], res, refs, ctx) :
        p \in {"", "p"}, wh \in Dims \X Dims, res \in ImageResolution,
        refs \in RefLists, ctx \in {Undefined, ImgC} }

\* One request per resolution tier.
SampleImageOptions ==
    { ImageOptions("p", AR_LANDSCAPE, Num(1024), Num(1024), res, <<ImgA, ImgB>>, ImgC) :
        res \in ImageResolution }

RespPng  == Response(<<ResponsePart(TRUE, "R0lG", "image/png", "")>>)
RespJpeg == Response(<<ResponsePart(FALSE, "", "", "Here is your image"),
                       ResponsePart(TRUE, "9j4A", "image/jpeg", "")>>)

BatchBackend == {RespPng, RespJpeg, EmptyResponse, BackendFailure}

\* The parts a response can be made of: text, inline data of two media types,
\* inline data without a media type, inlineData whose data is empty.
PartKinds ==
    { ResponsePart(FALSE, "", "", "Here is your image"),
      ResponsePart(TRUE, "R0lG", "image/png", ""),
      ResponsePart(TRUE, "9j4A", "image/jpeg", ""),
      ResponsePart(TRUE, "UklG", "", ""),
      ResponsePart(TRUE, "", "image/png", "") }

\* Every response of at most MaxParts parts, no parts at all, and a failure.
ExtractBackend ==
    {EmptyResponse, BackendFailure}
    \cup { Response(ps) : ps \in UNION { [1..n -> PartKinds] : n \in 0..MaxParts } }

\* What the backend answers in the generator slice.
UiBackend == {RespJpeg, BackendFailure}

\* What the video backend answers in the generator slice: a submission
\* answers with a job not yet done, a status refresh with a job done that
\* has a reference (or either call fails).
UiSubmitKinds == {h \in HandleKinds : ~h.done}
UiPollKinds == {h \in HandleKinds : h.done /\ h.uri = Str(VIDEO_URI)}

\* What is entered into the forms of the two generators.
FormPrompts == {"", "p"}
FormRatios == {AR_SQUARE, AR_CUSTOM}
FormDims == {Num(0)}
FormResolutions == {RES_1K, RES_2K}
FormCounts == {1, 2}
VideoPrompts == {"", "a cat"}

VideoOptions ==
    [prompt : {"a cat", "Animate this image"},
     inputImage : {Undefined, ImgA},
     aspectRatio : {AR_LANDSCAPE, AR_PORTRAIT}]

----------------------------------------------------------------------------
(* App and ImageGenerator: the form *)

\* The user's events so far: edits of the two forms, file choices, removals,
\* deletions, tab switches and clicks on the two generate buttons.
UserEvents == edits + clicks + vidCalls

\* The tab buttons of App: setActiveTab(t).
SetActiveTab(t) ==
    /\ t # activeTab
    /\ UserEvents < MaxEvents
    /\ edits' = edits + 1
    /\ activeTab' = t
    /\ UNCHANGED <<refImages, reading, now, genVars, vgenVars>>
    /\ UNCHANGED <<envVars, gateVars, imgVars, vidVars, clients, errorLog>>

\* What the handlers of ImageGenerator's form have in common: an event of
\* the user (no handler reads the tab shown: the hidden generator stays
\* mounted and takes keyboard input) that leaves the running
\* handleGenerate, the other generator and the service alone.
EditForm ==
    /\ UserEvents < MaxEvents
    /\ edits' = edits + 1
    /\ UNCHANGED <<runVars, refImages, reading, now, activeTab, vgenVars>>
    /\ UNCHANGED <<envVars, gateVars, imgVars, vidVars, clients>>

\* What the continuations of ImageGenerator's file reads have in common.
FormResumes ==
    /\ UNCHANGED <<edits, runVars, refImages, reading, now, activeTab, vgenVars>>
    /\ UNCHANGED <<envVars, gateVars, imgVars, vidVars, clients, errorLog>>

\* onChange of the prompt field: setPrompt(e.target.value).
SetPrompt(p) ==
    /\ EditForm
    /\ p # prompt
    /\ prompt' = p
    /\ UNCHANGED <<aspectRatio, resolution, outputCount, customWidth,
                   customHeight, contextImage, dirHandle, isEditing,
                   showCanvas, tempContextImgSrc, viewMode, ctxReading,
                   errorLog>>

\* onChange of the ratio select: setAspectRatio(e.target.value).
SetAspectRatio(ar) ==
    /\ EditForm
    /\ ar # aspectRatio
    /\ aspectRatio' = ar
    /\ UNCHANGED <<prompt, resolution, outputCount, customWidth,
                   customHeight, contextImage, dirHandle, isEditing,
                   showCanvas, tempContextImgSrc, viewMode, ctxReading,
                   errorLog>>

\* onChange of the width field, rendered for the custom ratio:
\* setCustomWidth(Number(e.target.value)).
SetCustomWidth(n) ==
    /\ EditForm
    /\ aspectRatio = AR_CUSTOM
    /\ n # customWidth
    /\ customWidth' = n
    /\ UNCHANGED <<prompt, aspectRatio, resolution, outputCount,
                   customHeight, contextImage, dirHandle, isEditing,
                   showCanvas, tempContextImgSrc, viewMode, ctxReading,
                   errorLog>>

\* onChange of the height field, rendered for the custom ratio:
\* setCustomHeight(Number(e.target.value)).
SetCustomHeight(n) ==
    /\ EditForm
    /\ aspectRatio = AR_CUSTOM
    /\ n # customHeight
    /\ customHeight' = n
    /\ UNCHANGED <<prompt, aspectRatio, resolution, outputCount, customWidth,
                   contextImage, dirHandle, isEditing, showCanvas,
                   tempContextImgSrc, viewMode, ctxReading, errorLog>>

\* onChange of the count select: setOutputCount(Number(e.target.value)).
SetOutputCount(n) ==
    /\ EditForm
    /\ n # outputCount
    /\ outputCount' = n
    /\ UNCHANGED <<prompt, aspectRatio, resolution, customWidth,
                   customHeight, contextImage, dirHandle, isEditing,
                   showCanvas, tempContextImgSrc, viewMode, ctxReading,
                   errorLog>>

\* onChange of the resolution select: setResolution(e.target.value).
SetResolution(r) ==
    /\ EditForm
    /\ r # resolution
    /\ resolution' = r
    /\ UNCHANGED <<prompt, aspectRatio, outputCount, customWidth,
                   customHeight, contextImage, dirHandle, isEditing,
                   showCanvas, tempContextImgSrc, viewMode, ctxReading,
                   errorLog>>

\* The two mode buttons: setIsEditing(false), setIsEditing(true).
SetIsEditing(b) ==
    /\ EditForm
    /\ b # isEditing
    /\ isEditing' = b
    /\ UNCHANGED <<prompt, aspectRatio, resolution, outputCount, customWidth,
                   customHeight, contextImage, dirHandle, showCanvas,
                   tempContextImgSrc, viewMode, ctxReading, errorLog>>

\* The two view buttons: setViewMode('current'), setViewMode('history').
\* The switch changes nothing but which of the two lists is rendered, and is
\* not counted among the user's events.
SetViewMode(m) ==
    /\ FormResumes
    /\ m # viewMode
    /\ viewMode' = m
    /\ UNCHANGED <<prompt, aspectRatio, resolution, outputCount, customWidth,
                   customHeight, contextImage, dirHandle, isEditing,
                   showCanvas, tempContextImgSrc, ctxReading>>

\* onChange of the context file input, with a file chosen:
\* handleContextUpload runs up to `await fileToBase64(file)`.
HandleContextUpload ==
    /\ EditForm
    /\ ctxReading' = ctxReading + 1
    /\ UNCHANGED <<prompt, aspectRatio, resolution, outputCount, customWidth,
                   customHeight, contextImage, dirHandle, isEditing,
                   showCanvas, tempContextImgSrc, viewMode, errorLog>>

\* `data:${mimeType};base64,${base64}`
DataUrl(img) == "data:" \o img.mimeType \o ";base64," \o img.base64

\* fileToBase64 resolves: handleContextUpload resumes with
\* setTempContextImgSrc(...) and setContextImage({ base64, mimeType }).
ContextReadDone(file) ==
    /\ FormResumes
    /\ ctxReading > 0
    /\ ctxReading' = ctxReading - 1
    /\ tempContextImgSrc' = DataUrl(file)
    /\ contextImage' = Image(file.base64, file.mimeType)
    /\ UNCHANGED <<prompt, aspectRatio, resolution, outputCount, customWidth,
                   customHeight, dirHandle, isEditing, showCanvas, viewMode>>

\* fileToBase64 rejects: handleContextUpload ends without an update.
ContextReadFails ==
    /\ FormResumes
    /\ ctxReading > 0
    /\ ctxReading' = ctxReading - 1
    /\ UNCHANGED <<prompt, aspectRatio, resolution, outputCount, customWidth,
                   customHeight, contextImage, dirHandle, isEditing,
                   showCanvas, tempContextImgSrc, viewMode>>

\* The Remove button, rendered with the context image: setContextImage(null).
RemoveContextImage ==
    /\ EditForm
    /\ Truthy(contextImage)
    /\ contextImage' = Null
    /\ UNCHANGED <<prompt, aspectRatio, resolution, outputCount, customWidth,
                   customHeight, dirHandle, isEditing, showCanvas,
                   tempContextImgSrc, viewMode, ctxReading, errorLog>>

\* The Brush button, rendered with the context image in editing mode:
\* setShowCanvas(true).
OpenCanvas ==
    /\ EditForm
    /\ Truthy(contextImage)
    /\ isEditing
    /\ ~showCanvas
    /\ showCanvas' = TRUE
    /\ UNCHANGED <<prompt, aspectRatio, resolution, outputCount, customWidth,
                   customHeight, contextImage, dirHandle, isEditing,
                   tempContextImgSrc, viewMode, ctxReading, errorLog>>

\* showCanvas && tempContextImgSrc: the canvas editor is rendered.
CanvasMounted == showCanvas /\ tempContextImgSrc # ""

\* The canvas editor's onClose: setShowCanvas(false).
CloseCanvas ==
    /\ EditForm
    /\ CanvasMounted
    /\ showCanvas' = FALSE
    /\ UNCHANGED <<prompt, aspectRatio, resolution, outputCount, customWidth,
                   customHeight, contextImage, dirHandle, isEditing,
                   tempContextImgSrc, viewMode, ctxReading, errorLog>>

\* handleCanvasSave(base64), called by the canvas editor's handleSave.
HandleCanvasSave(base64) ==
    /\ EditForm
    /\ CanvasMounted
    /\ contextImage' = Image(base64, "image/png")
    /\ showCanvas' = FALSE
    /\ UNCHANGED <<prompt, aspectRatio, resolution, outputCount, customWidth,
                   customHeight, dirHandle, isEditing, tempContextImgSrc,
                   viewMode, ctxReading, errorLog>>

\* Object.values(AspectRatio).find(ar => ar === s), then the fallback.
FoundRatio(s) == IF s \in AspectRatio THEN s ELSE AR_SQUARE

\* The items whose cards are rendered: the current batch or the history.
Rendered == IF viewMode = "current" THEN currentBatch ELSE history

\* handleUpscale(item), for the k-th card rendered.
HandleUpscale(k) ==
    /\ EditForm
    /\ k \in 1..Len(Rendered)
    /\ LET item == Rendered[k]
       IN  /\ contextImage' = Image(item.base64, item.mimeType)
           /\ prompt' = item.prompt
           /\ resolution' = RES_4K
           /\ IF Truthy(item.width) /\ Truthy(item.height)
                THEN /\ aspectRatio' = AR_CUSTOM
                     /\ customWidth' = item.width
                     /\ customHeight' = item.height
                ELSE /\ aspectRatio' = FoundRatio(item.aspectRatio)
                     /\ UNCHANGED <<customWidth, customHeight>>
    /\ isEditing' = TRUE
    /\ viewMode' = "current"
    /\ UNCHANGED <<outputCount, dirHandle, showCanvas, tempContextImgSrc,
                   ctxReading, errorLog>>

\* handleSetFolder, from the resumption of `await showDirectoryPicker()`:
\* the handle is stored, or the catch block logs the rejection. The stretch
\* before the await changes no state.
HandleSetFolder(picked) ==
    /\ EditForm
    /\ IF picked
         THEN /\ dirHandle' = [t |-> "object"]
              /\ UNCHANGED errorLog
         ELSE /\ errorLog' = Append(errorLog,
                    [name |-> "Folder selection cancelled or not supported", call |-> 0])
              /\ UNCHANGED dirHandle
    /\ UNCHANGED <<prompt, aspectRatio, resolution, outputCount, customWidth,
                   customHeight, contextImage, isEditing, showCanvas,
                   tempContextImgSrc, viewMode, ctxReading>>

\* prev.filter(i => i.id !== id)
WithoutId(prev, id) == SelectSeq(prev, LAMBDA i : i.id # id)

\* handleDelete(item.id), for the k-th card rendered.
HandleDelete(k) ==
    /\ UserEvents < MaxEvents
    /\ edits' = edits + 1
    /\ k \in 1..Len(Rendered)
    /\ history' = WithoutId(history, Rendered[k].id)
    /\ currentBatch' = WithoutId(currentBatch, Rendered[k].id)
    /\ UNCHANGED <<formVars, loading, gpc, closure, newItems, clicks, genCalls,
                   historyBefore, stale>>
    /\ UNCHANGED <<refImages, reading, now, activeTab, vgenVars>>
    /\ UNCHANGED <<envVars, gateVars, imgVars, vidVars, clients, errorLog>>

----------------------------------------------------------------------------
(* ImageGenerator: handleGenerate *)

\* base64Img.replace(/^data:image\/\w+;base64,/, "") and
\* base64Img.match(/data:([^;]+);/)?.[1] || 'image/png', on the asset
\* references the backend's answers give rise to.
ParseDataUrl(url) ==
    CASE url = "data:image/png;base64,R0lG"  -> [base64 |-> "R0lG", mime |-> "image/png"]
      [] url = "data:image/jpeg;base64,9j4A" -> [base64 |-> "9j4A", mime |-> "image/jpeg"]

\* The id of the k-th item of the n-th batch: Date.now() and a random suffix
\* in the code, taken to differ from item to item.
ItemId(n, k) == <<n, k>>

\* The HistoryItem built for one returned image (timestamp left out).
HistoryItem(url, c, id) ==
    LET custom == c.aspectRatio = AR_CUSTOM
    IN  [id          |-> id,
         base64      |-> ParseDataUrl(url).base64,
         mimeType    |-> ParseDataUrl(url).mime,
         prompt      |-> c.prompt,
         aspectRatio |-> IF custom
                           THEN ToStr(c.customWidth) \o ":" \o ToStr(c.customHeight)
                           ELSE c.aspectRatio,
         width       |-> IF custom THEN c.customWidth ELSE Undefined,
         height      |-> IF custom THEN c.customHeight ELSE Undefined]

\* The options object handleGenerate passes to generateImages.
GenerateOptions ==
    ImageOptions(prompt, aspectRatio, customWidth, customHeight, resolution,
                 RefsPassed,
                 IF Truthy(contextImage) THEN contextImage ELSE Undefined)
      @@ [isEditing |-> isEditing]

\* The generateContent calls of the batch in progress that have not been
\* answered, by index.
InFlight == SelectSeq([i \in 1..count |-> i], LAMBDA i : callState[i] = "inflight")

\* generateImages(outputCount, options) is called. The calls a rejected batch
\* left unanswered stay in flight.
CallGenerateImages ==
    /\ ipc' = "start"
    /\ count' = outputCount
    /\ options' = GenerateOptions
    /\ nextCall' = 0
    /\ requests' = <<>>
    /\ callState' = [i \in 1..outputCount |-> "unissued"]
    /\ callValue' = [i \in 1..outputCount |-> Undefined]
    /\ callResponse' = [i \in 1..outputCount |-> Undefined]
    /\ settleOrder' = <<>>
    /\ imgResult' = Pending
    /\ stale' = stale \o InFlight
    /\ UNCHANGED backend

\* Variant: the generate button calls generateImages whatever the form holds.
HandleGenerateUnguarded ==
    /\ ~loading
    /\ UserEvents < MaxEvents
    /\ clicks' = clicks + 1
    /\ loading' = TRUE
    /\ currentBatch' = <<>>
    /\ closure' = [prompt |-> prompt, aspectRatio |-> aspectRatio,
                   customWidth |-> customWidth, customHeight |-> customHeight,
                   dirHandle |-> dirHandle]
    /\ newItems' = <<>>
    /\ genCalls' = genCalls + 1
    /\ historyBefore' = history
    /\ gpc' = "generateImages"
    /\ viewMode' = "current"
    /\ CallGenerateImages
    /\ UNCHANGED <<prompt, aspectRatio, resolution, outputCount, customWidth,
                   customHeight, contextImage, dirHandle, isEditing, showCanvas,
                   tempContextImgSrc, ctxReading, history>>
    /\ UNCHANGED <<refImages, reading, now, activeTab, edits, vgenVars>>
    /\ UNCHANGED <<envVars, gateVars, vidVars, clients, errorLog>>

\* The generate button is clicked (it is disabled while loading):
\* handleGenerate runs up to `await generateImages(...)`, or returns at once
\* when there is neither a prompt nor a context image.
HandleGenerate ==
    /\ ~loading
    /\ UserEvents < MaxEvents
    /\ clicks' = clicks + 1
    /\ IF prompt = "" /\ ~Truthy(contextImage)
         THEN UNCHANGED <<loading, currentBatch, viewMode, closure, newItems,
                          genCalls, historyBefore, gpc, stale, imgVars>>
         ELSE /\ loading' = TRUE
              /\ currentBatch' = <<>>
              /\ viewMode' = "current"
              /\ closure' = [prompt |-> prompt, aspectRatio |-> aspectRatio,
                             customWidth |-> customWidth,
                             customHeight |-> customHeight,
                             dirHandle |-> dirHandle]
              /\ newItems' = <<>>
              /\ genCalls' = genCalls + 1
              /\ historyBefore' = history
              /\ gpc' = "generateImages"
              /\ CallGenerateImages
    /\ UNCHANGED <<prompt, aspectRatio, resolution, outputCount, customWidth,
                   customHeight, contextImage, dirHandle, isEditing, showCanvas,
                   tempContextImgSrc, ctxReading, history>>
    /\ UNCHANGED <<refImages, reading, now, activeTab, edits, vgenVars>>
    /\ UNCHANGED <<envVars, gateVars, vidVars, clients, errorLog>>

\* A generateContent call of an earlier, rejected batch is answered with r:
\* its callback resumes and returns or throws (logging what it throws) into
\* a Promise.all that has already rejected.
StaleCallSettles(k, r) ==
    /\ k \in 1..Len(stale)
    /\ r \in backend
    /\ LET out == CallOutcome(stale[k], r)
       IN  errorLog' = IF out.state = "rejected"
                         THEN Append(errorLog, out.value)
                         ELSE errorLog
    /\ stale' = [j \in 1..(Len(stale) - 1) |-> IF j < k THEN stale[j] ELSE stale[j + 1]]
    /\ UNCHANGED <<formVars, loading, currentBatch, history, gpc, closure,
                   newItems, clicks, genCalls, historyBefore>>
    /\ UNCHANGED <<refImages, reading, now, activeTab, edits, vgenVars>>
    /\ UNCHANGED <<envVars, gateVars, imgVars, vidVars, clients>>

\* setCurrentBatch(newItems); setHistory(prev => [...newItems, ...prev]);
\* finally setLoading(false).
CommitBatch(items) ==
    /\ currentBatch' = items
    /\ history' = items \o history
    /\ loading' = FALSE
    /\ gpc' = "idle"

\* Variant: the catch block returns before the loading flag is reset.
GenerateImagesSettlesNoFinally ==
    /\ gpc = "generateImages"
    /\ imgResult.status # "pending"
    /\ IF imgResult.status = "rejected"
         THEN /\ errorLog' = Append(errorLog, imgResult.reason)
              /\ gpc' = "idle"
              /\ UNCHANGED <<loading, currentBatch, history, newItems>>
         ELSE /\ UNCHANGED errorLog
              /\ IF Truthy(closure.dirHandle)
                   THEN /\ newItems' = <<HistoryItem(imgResult.value[1], closure,
                                                     ItemId(genCalls, 1))>>
                        /\ gpc' = "saveToDirectory"
                        /\ UNCHANGED <<loading, currentBatch, history>>
                   ELSE LET items == [k \in 1..Len(imgResult.value) |->
                                        HistoryItem(imgResult.value[k], closure,
                                                    ItemId(genCalls, k))]
                        IN  /\ newItems' = items
                            /\ CommitBatch(items)
    /\ UNCHANGED <<formVars, closure, clicks, genCalls, historyBefore, stale>>
    /\ UNCHANGED <<refImages, reading, now, activeTab, edits, vgenVars>>
    /\ UNCHANGED <<envVars, gateVars, imgVars, vidVars, clients>>

\* `await generateImages(...)` resumes. On a rejection the catch block logs
\* the error and the finally block resets the loading flag. On a list of
\* images the items are built in order, up to the first
\* `await saveToDirectory(...)` when a folder is chosen, else to the end.
GenerateImagesSettles ==
    /\ gpc = "generateImages"
    /\ imgResult.status # "pending"
    /\ IF imgResult.status = "rejected"
         THEN /\ errorLog' = Append(errorLog, imgResult.reason)
              /\ loading' = FALSE
              /\ gpc' = "idle"
              /\ UNCHANGED <<currentBatch, history, newItems>>
         ELSE /\ UNCHANGED errorLog
              /\ IF Truthy(closure.dirHandle)
                   THEN /\ newItems' = <<HistoryItem(imgResult.value[1], closure,
                                                     ItemId(genCalls, 1))>>
                        /\ gpc' = "saveToDirectory"
                        /\ UNCHANGED <<loading, currentBatch, history>>
                   ELSE LET items == [k \in 1..Len(imgResult.value) |->
                                        HistoryItem(imgResult.value[k], closure,
                                                    ItemId(genCalls, k))]
                        IN  /\ newItems' = items
                            /\ CommitBatch(items)
    /\ UNCHANGED <<formVars, closure, clicks, genCalls, historyBefore, stale>>
    /\ UNCHANGED <<refImages, reading, now, activeTab, edits, vgenVars>>
    /\ UNCHANGED <<envVars, gateVars, imgVars, vidVars, clients>>

\* saveToDirectory settles: its file-system calls have all resolved and it
\* returns true, or one has rejected and its catch block logs the failure
\* and returns false. handleGenerate has not resumed yet.
SaveToDirectorySettles(ok) ==
    /\ gpc = "saveToDirectory"
    /\ gpc' = "saveReturned"
    /\ errorLog' = IF ok THEN errorLog
                   ELSE Append(errorLog, [name |-> "Failed to save to directory",
                                          call |-> Len(newItems)])
    /\ UNCHANGED <<formVars, loading, currentBatch, history, closure, newItems,
                   clicks, genCalls, historyBefore, stale>>
    /\ UNCHANGED <<refImages, reading, now, activeTab, edits, vgenVars>>
    /\ UNCHANGED <<envVars, gateVars, imgVars, vidVars, clients>>

\* `await saveToDirectory(...)` resumes: the next item is built and its save
\* started, or the batch is committed.
SaveToDirectoryReturns ==
    /\ gpc = "saveReturned"
    /\ IF Len(newItems) < Len(imgResult.value)
         THEN /\ newItems' = Append(newItems,
                                    HistoryItem(imgResult.value[Len(newItems) + 1], closure,
                                                ItemId(genCalls, Len(newItems) + 1)))
              /\ gpc' = "saveToDirectory"
              /\ UNCHANGED <<loading, currentBatch, history>>
         ELSE /\ CommitBatch(newItems)
              /\ UNCHANGED newItems
    /\ UNCHANGED <<formVars, closure, clicks, genCalls, historyBefore, stale>>
    /\ UNCHANGED <<refImages, reading, now, activeTab, edits, vgenVars>>
    /\ UNCHANGED <<envVars, gateVars, imgVars, vidVars, clients, errorLog>>

----------------------------------------------------------------------------
(* VideoGenerator *)

\* What the handlers of VideoGenerator's form have in common: an event of
\* the user that leaves the running handleGenerate, the other generator and
\* the service alone.
EditVideoForm ==
    /\ UserEvents < MaxEvents
    /\ edits' = edits + 1
    /\ UNCHANGED <<vrunVars, refImages, reading, now, activeTab, genVars>>
    /\ UNCHANGED <<envVars, gateVars, imgVars, vidVars, clients, errorLog>>

\* What the continuations of VideoGenerator's file reads have in common.
VideoFormResumes ==
    /\ UNCHANGED <<edits, vrunVars, refImages, reading, now, activeTab, genVars>>
    /\ UNCHANGED <<envVars, gateVars, imgVars, vidVars, clients, errorLog>>

\* onChange of the prompt field: setPrompt(e.target.value).
SetVideoPrompt(p) ==
    /\ EditVideoForm
    /\ p # vprompt
    /\ vprompt' = p
    /\ UNCHANGED <<vinputImage, vaspectRatio, vidReading>>

\* onChange of the file input, with a file chosen: handleImageUpload runs
\* up to `await fileToBase64(file)`.
HandleImageUpload ==
    /\ EditVideoForm
    /\ vidReading' = vidReading + 1
    /\ UNCHANGED <<vprompt, vinputImage, vaspectRatio>>

\* fileToBase64 resolves: handleImageUpload resumes with
\* setInputImage({ base64, mimeType }).
ImageReadDone(file) ==
    /\ VideoFormResumes
    /\ vidReading > 0
    /\ vidReading' = vidReading - 1
    /\ vinputImage' = Image(file.base64, file.mimeType)
    /\ UNCHANGED <<vprompt, vaspectRatio>>

\* fileToBase64 rejects: handleImageUpload ends without an update.
ImageReadFails ==
    /\ VideoFormResumes
    /\ vidReading > 0
    /\ vidReading' = vidReading - 1
    /\ UNCHANGED <<vprompt, vinputImage, vaspectRatio>>

\* The remove button, rendered with the input image: setInputImage(null).
RemoveInputImage ==
    /\ EditVideoForm
    /\ Truthy(vinputImage)
    /\ vinputImage' = Null
    /\ UNCHANGED <<vprompt, vaspectRatio, vidReading>>

\* The two ratio buttons: setAspectRatio('16:9'), setAspectRatio('9:16').
SetVideoAspectRatio(ar) ==
    /\ EditVideoForm
    /\ ar # vaspectRatio
    /\ vaspectRatio' = ar
    /\ UNCHANGED <<vprompt, vinputImage, vidReading>>

\* The generate button is clicked (it is disabled while loading):
\* handleGenerate runs up to `await generateVideo(...)`.
VideoHandleGenerate ==
    /\ ~vloading
    /\ UserEvents < MaxEvents
    /\ vloading' = TRUE
    /\ videoUrl' = Null
    /\ vidCalls' = vidCalls + 1
    /\ vgpc' = "generateVideo"
    /\ vpc' = "start"
    /\ voptions' = [prompt      |-> IF vprompt # "" THEN vprompt ELSE "Animate this image",
                    inputImage  |-> IF Truthy(vinputImage) THEN vinputImage ELSE Undefined,
                    aspectRatio |-> vaspectRatio]
    /\ operation' = Undefined
    /\ received' = <<>>
    /\ submits' = <<>>
    /\ sleeps' = <<>>
    /\ polls' = <<>>
    /\ outstanding' = 0
    /\ vidResult' = Pending
    /\ UNCHANGED vformVars
    /\ UNCHANGED <<refImages, reading, now, activeTab, edits, genVars>>
    /\ UNCHANGED <<envVars, gateVars, imgVars, clients, errorLog>>

\* `await generateVideo(...)` resumes: the reference is stored, or the catch
\* block logs the error; the finally block resets the loading flag.
GenerateVideoSettles ==
    /\ vgpc = "generateVideo"
    /\ vidResult.status # "pending"
    /\ IF vidResult.status = "rejected"
         THEN /\ errorLog' = Append(errorLog, vidResult.reason)
              /\ UNCHANGED videoUrl
         ELSE /\ videoUrl' = Str(vidResult.value)
              /\ UNCHANGED errorLog
    /\ vloading' = FALSE
    /\ vgpc' = "idle"
    /\ UNCHANGED <<vformVars, vidCalls>>
    /\ UNCHANGED <<refImages, reading, now, activeTab, edits, genVars>>
    /\ UNCHANGED <<envVars, gateVars, imgVars, vidVars, clients>>

----------------------------------------------------------------------------
(* Initial states *)

GateIdle ==
    /\ gatePc = [c \in Callers |-> "idle"]
    /\ gateInvoked = [c \in Callers |-> 0]
    /\ hasKeyCalls = 0
    /\ openCalls = 0
    /\ openReturns = 0

RefsIdle ==
    /\ refImages = <<>>
    /\ reading = 0
    /\ now = 0

\* The two generator components as mounted: useState's initial values.
GeneratorsIdle ==
    /\ activeTab = "IMAGE"
    /\ prompt = ""
    /\ aspectRatio = AR_SQUARE
    /\ resolution = RES_1K
    /\ outputCount = 1
    /\ customWidth = Num(1024)
    /\ customHeight = Num(1024)
    /\ contextImage = Null
    /\ dirHandle = Null
    /\ isEditing = FALSE
    /\ showCanvas = FALSE
    /\ tempContextImgSrc = ""
    /\ viewMode = "current"
    /\ ctxReading = 0
    /\ loading = FALSE
    /\ currentBatch = <<>>
    /\ history = <<>>
    /\ gpc = "idle"
    /\ closure = Undefined
    /\ newItems = <<>>
    /\ clicks = 0
    /\ genCalls = 0
    /\ historyBefore = <<>>
    /\ stale = <<>>
    /\ edits = 0
    /\ vprompt = ""
    /\ vinputImage = Null
    /\ vaspectRatio = AR_LANDSCAPE
    /\ vidReading = 0
    /\ vloading = FALSE
    /\ videoUrl = Null
    /\ vgpc = "idle"
    /\ vidCalls = 0

ImagesIdle ==
    /\ ipc = "idle"
    /\ count = 0
    /\ options = ImageOptions("", AR_SQUARE, Num(1024), Num(1024), RES_1K, <<>>, Undefined)
    /\ backend = {}
    /\ nextCall = 0
    /\ requests = <<>>
    /\ callState = <<>>
    /\ callValue = <<>>
    /\ callResponse = <<>>
    /\ settleOrder = <<>>
    /\ imgResult = Pending

VideoIdle ==
    /\ vpc = "idle"
    /\ voptions = [prompt |-> "", inputImage |-> Undefined, aspectRatio |-> AR_LANDSCAPE]
    /\ operation = Undefined
    /\ received = <<>>
    /\ submits = <<>>
    /\ sleeps = <<>>
    /\ polls = <<>>
    /\ outstanding = 0
    /\ vidResult = Pending

\* generateImages(n, opts) has been called.
ImagesCalled(n, opts, outcomes) ==
    /\ ipc = "start"
    /\ count = n
    /\ options = opts
    /\ backend = outcomes
    /\ nextCall = 0
    /\ requests = <<>>
    /\ callState = [i \in 1..n |-> "unissued"]
    /\ callValue = [i \in 1..n |-> Undefined]
    /\ callResponse = [i \in 1..n |-> Undefined]
    /\ settleOrder = <<>>
    /\ imgResult = Pending

\* Batches of every size against a backend that can fail.
InitImages ==
    /\ aistudio \in BOOLEAN
    /\ keySelected \in BOOLEAN
    /\ apiKey = Str("KEY")
    /\ GateIdle
    /\ \E n \in 1..MaxCount, opts \in SampleImageOptions :
          ImagesCalled(n, opts, BatchBackend)
    /\ VideoIdle
    /\ RefsIdle
    /\ GeneratorsIdle
    /\ clients = 0
    /\ errorLog = <<>>

\* Requests of every shape against a backend that answers.
InitPayload ==
    /\ aistudio = TRUE
    /\ keySelected = FALSE
    /\ apiKey = Str("KEY")
    /\ GateIdle
    /\ \E n \in 1..MaxPayloadCount, opts \in AllImageOptions :
          ImagesCalled(n, opts, {RespPng})
    /\ VideoIdle
    /\ RefsIdle
    /\ GeneratorsIdle
    /\ clients = 0
    /\ errorLog = <<>>

\* Small batches against a backend that answers with every shape of response.
InitExtract ==
    /\ aistudio = TRUE
    /\ keySelected \in BOOLEAN
    /\ apiKey = Str("KEY")
    /\ GateIdle
    /\ \E n \in 1..MaxExtractCount, opts \in SampleImageOptions :
          ImagesCalled(n, opts, ExtractBackend)
    /\ VideoIdle
    /\ RefsIdle
    /\ GeneratorsIdle
    /\ clients = 0
    /\ errorLog = <<>>

\* generateImages for a Pro tier and generateVideo have both been called, with
\* the selection mechanism present and no credential selected: two
\* invocations of the gate are in progress together.
InitGate ==
    /\ aistudio = TRUE
    /\ keySelected = FALSE
    /\ apiKey = Str("KEY")
    /\ GateIdle
    /\ \E opts \in SampleImageOptions :
          /\ opts.resolution # RES_1K
          /\ ImagesCalled(1, opts, {RespPng})
    /\ vpc = "start"
    /\ voptions = [prompt |-> "a cat", inputImage |-> Undefined,
                   aspectRatio |-> AR_LANDSCAPE]
    /\ operation = Undefined
    /\ received = <<>>
    /\ submits = <<>>
    /\ sleeps = <<>>
    /\ polls = <<>>
    /\ outstanding = 0
    /\ vidResult = Pending
    /\ RefsIdle
    /\ GeneratorsIdle
    /\ clients = 0
    /\ errorLog = <<>>

\* The image generator has been mounted; nothing has been generated.
InitRefs ==
    /\ aistudio = TRUE
    /\ keySelected = FALSE
    /\ apiKey = Str("KEY")
    /\ GateIdle
    /\ ImagesIdle
    /\ VideoIdle
    /\ RefsIdle
    /\ GeneratorsIdle
    /\ clients = 0
    /\ errorLog = <<>>

\* The application as mounted: nothing has been entered or generated.
InitUi ==
    /\ aistudio = TRUE
    /\ keySelected = FALSE
    /\ apiKey = Str("KEY")
    /\ GateIdle
    /\ ipc = "idle"
    /\ count = 0
    /\ options = ImageOptions("", AR_SQUARE, Num(1024), Num(1024), RES_1K, <<>>, Undefined)
    /\ backend = UiBackend
    /\ nextCall = 0
    /\ requests = <<>>
    /\ callState = <<>>
    /\ callValue = <<>>
    /\ callResponse = <<>>
    /\ settleOrder = <<>>
    /\ imgResult = Pending
    /\ VideoIdle
    /\ RefsIdle
    /\ GeneratorsIdle
    /\ clients = 0
    /\ errorLog = <<>>

\* generateVideo(opts) has been called.
InitVideo ==
    /\ aistudio \in BOOLEAN
    /\ keySelected \in BOOLEAN
    /\ apiKey \in {Str("KEY"), Undefined}
    /\ GateIdle
    /\ ImagesIdle
    /\ vpc = "start"
    /\ voptions \in VideoOptions
    /\ operation = Undefined
    /\ received = <<>>
    /\ submits = <<>>
    /\ sleeps = <<>>
    /\ polls = <<>>
    /\ outstanding = 0
    /\ vidResult = Pending
    /\ RefsIdle
    /\ GeneratorsIdle
    /\ clients = 0
    /\ errorLog = <<>>

\* The service called in any of the ways above.
Init == InitImages \/ InitPayload \/ InitExtract \/ InitGate \/ InitVideo

----------------------------------------------------------------------------
(* Specifications *)

NextImages ==
    \/ GenerateImagesEnter
    \/ GateHasKeyReturns("image")
    \/ GateOpenReturns("image")
    \/ ImgGateDone
    \/ ImgGetClient
    \/ ImgIssueCall
    \/ ImgAwaitAll
    \/ \E i \in 1..count, r \in backend : ImgCallSettles(i, r)

NextVideo ==
    \/ GenerateVideoEnter
    \/ GateHasKeyReturns("video")
    \/ GateOpenReturns("video")
    \/ VidGateDone
    \/ VidSubmit
    \/ \E h \in HandleKinds : SubmitReturns(h)
    \/ SubmitFails
    \/ VidLoop
    \/ VidSleepDone
    \/ \E h \in HandleKinds : PollReturns(h)
    \/ PollFails

NextRefs ==
    \/ HandleRefUpload /\ UNCHANGED edits
    \/ RefReadDone
    \/ RefReadFails
    \/ \E k \in 1..Len(refImages) : RemoveRef(k) /\ UNCHANGED edits
    \/ Tick

\* The clock is read by the reference upload alone, whose ids are compared
\* with one another only: it advances here while a read is in progress and
\* the list holds an id to differ from.
NextUi ==
    \/ \E t \in {"IMAGE", "VIDEO"} : SetActiveTab(t)
    \/ \E p \in FormPrompts : SetPrompt(p)
    \/ \E ar \in FormRatios : SetAspectRatio(ar)
    \/ \E n \in FormDims : SetCustomWidth(n)
    \/ \E n \in FormDims : SetCustomHeight(n)
    \/ \E n \in FormCounts : SetOutputCount(n)
    \/ \E r \in FormResolutions : SetResolution(r)
    \/ \E b \in BOOLEAN : SetIsEditing(b)
    \/ \E m \in {"current", "history"} : SetViewMode(m)
    \/ HandleRefUpload /\ UserEvents < MaxEvents /\ edits' = edits + 1
    \/ RefReadDone
    \/ RefReadFails
    \/ \E k \in 1..Len(refImages) :
          RemoveRef(k) /\ UserEvents < MaxEvents /\ edits' = edits + 1
    \/ reading > 0 /\ refImages # <<>> /\ Tick
    \/ HandleContextUpload
    \/ ContextReadDone(ImgC)
    \/ ContextReadFails
    \/ RemoveContextImage
    \/ OpenCanvas
    \/ CloseCanvas
    \/ HandleCanvasSave("DDDD")
    \/ \E k \in 1..Len(Rendered) : HandleUpscale(k)
    \/ \E picked \in BOOLEAN : HandleSetFolder(picked)
    \/ \E k \in 1..Len(Rendered) : HandleDelete(k)
    \/ HandleGenerate
    \/ GenerateImagesSettles
    \/ \E ok \in BOOLEAN : SaveToDirectorySettles(ok)
    \/ SaveToDirectoryReturns
    \/ \E k \in 1..Len(stale), r \in backend : StaleCallSettles(k, r)
    \/ NextImages
    \/ \E p \in VideoPrompts : SetVideoPrompt(p)
    \/ HandleImageUpload
    \/ ImageReadDone(ImgA)
    \/ ImageReadFails
    \/ RemoveInputImage
    \/ \E ar \in {AR_LANDSCAPE, AR_PORTRAIT} : SetVideoAspectRatio(ar)
    \/ VideoHandleGenerate
    \/ GenerateVideoSettles
    \/ GenerateVideoEnter
    \/ GateHasKeyReturns("video")
    \/ GateOpenReturns("video")
    \/ VidGateDone
    \/ VidSubmit
    \/ \E h \in UiSubmitKinds : SubmitReturns(h)
    \/ SubmitFails
    \/ VidLoop
    \/ VidSleepDone
    \/ \E h \in UiPollKinds : PollReturns(h)
    \/ PollFails

Next == NextImages \/ NextVideo

\* generateImages, batches against a failing backend
SpecImages == InitImages /\ [][NextImages]_vars

\* generateImages, every request shape
SpecPayload == InitPayload /\ [][NextImages]_vars

\* generateImages, every response shape
SpecExtract == InitExtract /\ [][NextImages]_vars

\* generateVideo
SpecVideo == InitVideo /\ [][NextVideo]_vars

\* generateVideo under the event loop's scheduling: a continuation that is
\* ready runs, and a timer that is set fires.
SpecVideoLive ==
    /\ InitVideo /\ [][NextVideo]_vars
    /\ WF_vars(VidLoop)
    /\ WF_vars(VidSleepDone)

\* The generator components over the service
SpecUi == InitUi /\ [][NextUi]_vars

\* The generator components under the event loop's scheduling: a handler
\* whose awaited promise has settled resumes. Whether a promise settles is
\* its owner's affair: the backend's answers and the file system's
\* (SaveToDirectorySettles) get no fairness. saveToDirectory's try/catch
\* turns every exception into `false`, but getFileHandle, createWritable,
\* write and close are awaited without a timeout, and while one of them
\* stays pending there is nothing to catch: handleGenerate waits at its
\* `await saveToDirectory`.
SpecUiLive ==
    /\ InitUi /\ [][NextUi]_vars
    /\ WF_vars(GenerateImagesSettles)
    /\ WF_vars(SaveToDirectoryReturns)
    /\ WF_vars(GenerateVideoSettles)

\* The image generator's reference-image list
SpecRefs == InitRefs /\ [][NextRefs]_vars

\* generateImages and generateVideo called together
SpecGate == InitGate /\ [][Next]_vars

Spec == Init /\ [][Next]_vars

----------------------------------------------------------------------------
(* Properties of generateImages: the batch *)

Settled == {"fulfilled", "rejected"}

\* C1: as soon as one of the count calls has failed, the promise generateImages
\* returned is rejected, its reason is the first failure encountered (the
\* first error the calls logged), and it carries no list of results, whatever
\* the other calls return before or after.
C1_BatchFailsWithFirstFailure ==
    (\E i \in 1..count : callState[i] = "rejected")
        => /\ Len(errorLog) >= 1
           /\ imgResult.status = "rejected"
           /\ imgResult.reason = errorLog[1]
           /\ "value" \notin DOMAIN imgResult

\* C1 witness: a batch of three whose second call failed and whose other two
\* calls succeeded, rejected.
C1_Witness ==
    /\ count = 3
    /\ callState = <<"fulfilled", "rejected", "fulfilled">>
    /\ imgResult.status = "rejected"
    /\ imgResult.reason.call = 2

\* C2 as stated: all calls are launched before any completes, and the promise
\* stays pending until every one of the count calls has settled.
C2_SettlesOnlyAfterAllCalls ==
    /\ (\E i \in 1..count : callState[i] \in Settled)
          => \A j \in 1..count : callState[j] # "unissued"
    /\ imgResult.status # "pending"
          => \A j \in 1..count : callState[j] \in Settled

\* C2 amended: all count calls are launched before any completes; the promise
\* fulfils only when every call has produced a result, stays pending while no
\* call has failed and some call is in flight, and is rejected as soon as one
\* call has failed, whether or not other calls are still in flight.
C2_LaunchAllThenFailFast ==
    /\ (\E i \in 1..count : callState[i] \in Settled)
          => /\ \A j \in 1..count : callState[j] # "unissued"
             /\ Len(requests) = count
    /\ imgResult.status = "fulfilled"
          <=> (ipc # "idle" /\ \A j \in 1..count : callState[j] = "fulfilled")
    /\ imgResult.status = "rejected"
          <=> \E j \in 1..count : callState[j] = "rejected"

\* C2 witness: the caller has been notified of the failure while another call
\* of the batch is still in flight.
C2_Witness ==
    /\ imgResult.status = "rejected"
    /\ \E j \in 1..count : callState[j] = "inflight"

\* C3: a batch above the baseline tier invokes the credential gate exactly
\* once, whatever the count, and the gate has completed before the first
\* backend call is issued; a baseline batch never invokes it.
C3_GateOncePerBatch ==
    /\ options.resolution = RES_1K => gateInvoked["image"] = 0
    /\ (options.resolution \in {RES_2K, RES_4K} /\ ipc \notin {"idle", "start"})
          => gateInvoked["image"] = 1
    /\ (options.resolution \in {RES_2K, RES_4K} /\ Len(requests) > 0)
          => gatePc["image"] = "done"

\* C3 witness: a 2K batch of three, all three calls issued, after one gate
\* invocation that ran the selection flow.
C3_Witness ==
    /\ options.resolution = RES_2K
    /\ count = 3
    /\ Len(requests) = 3
    /\ gateInvoked["image"] = 1
    /\ openCalls = 1

----------------------------------------------------------------------------
(* Properties of generateVideo *)

NoReference(h) == h.uri = Undefined \/ h.uri = Str("")

\* C4: polling is sequential. Every status refresh follows a sleep of the fixed
\* interval, is issued while the handle in hand reports not-done, and is keyed
\* by the handle received most recently; at most one refresh is outstanding,
\* the next one is issued only after the previous one has returned, and a
\* result is extracted only from a handle whose completion flag is true.
C4_SequentialPolling ==
    /\ outstanding \in {0, 1}
    /\ outstanding = 1 <=> vpc = "getVideosOperation"
    /\ Len(sleeps) = Len(polls)
    /\ \A k \in 1..Len(sleeps) : sleeps[k] = 5000
    /\ \A k \in 1..Len(polls) :
          /\ k <= Len(received)
          /\ polls[k] = received[k].id
          /\ ~received[k].done
          /\ ~received[k].failed
    /\ vpc = "getVideosOperation" => Len(received) = Len(polls)
    /\ vpc = "sleep" => ~operation.done
    /\ vidResult.status = "fulfilled" => operation.done
    /\ (vidResult.status = "rejected" /\ vidResult.reason.name = "No video URI in response")
          => operation.done

\* C4 witness: a job returned after two refreshes, the second keyed by the
\* handle the first refresh returned.
C4_Witness ==
    /\ vidResult.status = "fulfilled"
    /\ polls = <<1, 2>>
    /\ Len(received) = 3

\* C5: when the handles the driver examines are, in order, incomplete (the
\* submission's), incomplete (first refresh) and complete with a reference
\* (second refresh), the driver has slept and polled exactly twice when it
\* returns, and returns the reference followed by "&key=" and the API key; in
\* general it examines no handle after one that reports complete.
C5_TwoCyclesThenReturn ==
    /\ \A k \in 1..Len(received) :
          received[k].done => /\ k = Len(received)
                              /\ vpc \in {"loop", "returned"}
    /\ ( /\ vpc = "returned"
         /\ Len(received) = 3
         /\ ~received[1].done /\ ~received[1].failed
         /\ ~received[2].done /\ ~received[2].failed
         /\ received[3].done /\ received[3].uri = Str(VIDEO_URI) )
          => /\ Len(sleeps) = 2
             /\ Len(polls) = 2
             /\ vidResult.status = "fulfilled"
             /\ vidResult.value =
                   "https://backend/files/v1:download?alt=media&key="
                   \o (IF apiKey = Undefined THEN "undefined" ELSE apiKey.v)

\* C5 witness: that handle sequence, returned, with an API key.
C5_Witness ==
    /\ vpc = "returned"
    /\ Len(received) = 3
    /\ received[3].done
    /\ received[3].uri = Str(VIDEO_URI)
    /\ apiKey = Str("KEY")
    /\ vidResult.status = "fulfilled"

\* C6: a handle that reports complete and carries no video reference (absent
\* or empty, with or without a failure indication) is the last answer the
\* driver asks for: no poll follows it, and generateVideo rejects with "No
\* video URI in response" and returns no reference.
C6_NoVideoData ==
    \A k \in 1..Len(received) :
       (received[k].done /\ NoReference(received[k]))
          => /\ k = Len(received)
             /\ Len(polls) = k - 1
             /\ outstanding = 0
             /\ vpc \in {"loop", "returned"}
             /\ vpc = "loop" => vidResult.status = "pending"
             /\ vpc = "returned"
                   => /\ vidResult.status = "rejected"
                      /\ vidResult.reason.name = "No video URI in response"
                      /\ "value" \notin DOMAIN vidResult

\* C6 witness: the first refresh returned a completed job that only carries a
\* failure indication, and generateVideo has rejected.
C6_Witness ==
    /\ vpc = "returned"
    /\ Len(received) = 2
    /\ received[2].done
    /\ received[2].error
    /\ vidResult.status = "rejected"

\* C7: once the submission or a status refresh has failed, generateVideo has
\* rejected with that failure and nothing more is issued: one submission, and
\* no sleep or poll beyond those that preceded the failed call.
C7_FailureSurfacesImmediately ==
    \A k \in 1..Len(received) :
       received[k].failed
          => /\ k = Len(received)
             /\ Len(submits) = 1
             /\ Len(polls) = k - 1
             /\ Len(sleeps) = k - 1
             /\ outstanding = 0
             /\ vpc = "returned"
             /\ vidResult.status = "rejected"
             /\ vidResult.reason = [name |-> "BackendCallError", call |-> k - 1]

\* C7 witness: the second status refresh failed.
C7_Witness ==
    /\ Len(received) = 3
    /\ received[3].failed
    /\ vidResult.status = "rejected"

\* C8: every generateVideo invocation invokes the credential gate, once, and
\* the gate has completed before the client is created and before the job is
\* submitted.
C8_GateBeforeVideoSubmission ==
    /\ vpc \notin {"idle", "start"} => gateInvoked["video"] = 1
    /\ clients > 0 => gatePc["video"] = "done"
    /\ Len(submits) > 0 => (gatePc["video"] = "done" /\ clients = 1)
    /\ Len(submits) <= 1

\* C8 witness: the job was submitted after a gate invocation that ran the
\* selection flow.
C8_Witness ==
    /\ Len(submits) = 1
    /\ gateInvoked["video"] = 1
    /\ openCalls = 1
    /\ keySelected

----------------------------------------------------------------------------
(* Properties of generateImages: the request payload *)

InlineOf(data, mimeType) == [inlineData |-> [data |-> data, mimeType |-> mimeType]]

\* C9: the parts of every request issued are the reference images in their
\* stored order, then the context image if there is one, then the prompt as
\* the last part; for reference images [A, B], context image C and prompt "p"
\* they are exactly [A, B, C, "p"].
C9_PartsOrder ==
    \A k \in 1..Len(requests) :
       LET parts  == requests[k].contents.parts
           refs   == options.refImages
           n      == Len(refs)
           ctx    == options.contextImage
           hasCtx == ctx # Undefined
       IN  /\ Len(parts) = n + (IF hasCtx THEN 1 ELSE 0) + 1
           /\ \A j \in 1..n : parts[j] = InlineOf(refs[j].base64, refs[j].mimeType)
           /\ hasCtx => parts[n + 1] = InlineOf(ctx.base64, ctx.mimeType)
           /\ parts[Len(parts)] = [text |-> options.prompt]
           /\ (refs = <<ImgA, ImgB>> /\ ctx = ImgC /\ options.prompt = "p")
                 => parts = << InlineOf("AAAA", "image/png"),
                               InlineOf("BBBB", "image/jpeg"),
                               InlineOf("CCCC", "image/webp"),
                               [text |-> "p"] >>

\* C9 witness: both calls of a batch of two issued for reference images
\* [A, B], context image C and prompt "p".
C9_Witness ==
    /\ Len(requests) = 2
    /\ options.refImages = <<ImgA, ImgB>>
    /\ options.contextImage = ImgC
    /\ options.prompt = "p"

\* The decimal text of the dimensions explored.
DimText(n) ==
    CASE n = 0 -> "0" [] n = -3 -> "-3" [] n = 720 -> "720"
      [] n = 1024 -> "1024" [] n = 1280 -> "1280"

SentRatio(k) == requests[k].config.imageConfig.aspectRatio

\* C10 as stated: custom with both width and height given sends
\* "{width}:{height}", custom with one of them missing sends "1:1", an
\* enumerated ratio sends its canonical string.
C10_RatioWhenGiven ==
    \A k \in 1..Len(requests) :
       SentRatio(k) =
          IF options.aspectRatio = "CUSTOM"
            THEN IF options.width # Undefined /\ options.height # Undefined
                   THEN DimText(options.width.v) \o ":" \o DimText(options.height.v)
                   ELSE "1:1"
            ELSE options.aspectRatio

\* C10 amended: custom with both width and height given and non-zero sends
\* "{width}:{height}" from the raw integers, unreduced (1280 and 720 give
\* "1280:720"); custom with width or height missing or zero sends "1:1"; an
\* enumerated ratio sends its canonical string.
C10_RatioString ==
    \A k \in 1..Len(requests) :
       LET w == options.width
           h == options.height
           given == /\ w # Undefined /\ w.v # 0
                    /\ h # Undefined /\ h.v # 0
       IN  /\ (options.aspectRatio = "CUSTOM" /\ given)
                 => SentRatio(k) = DimText(w.v) \o ":" \o DimText(h.v)
           /\ (options.aspectRatio = "CUSTOM" /\ ~given) => SentRatio(k) = "1:1"
           /\ options.aspectRatio \in {"1:1", "4:3", "16:9", "9:16"}
                 => SentRatio(k) = options.aspectRatio
           /\ (options.aspectRatio = "CUSTOM" /\ w = Num(1280) /\ h = Num(720))
                 => SentRatio(k) = "1280:720"
           /\ options.aspectRatio \in {"1:1", "4:3", "16:9", "9:16", "CUSTOM"}

\* C10 witness: a request issued for custom dimensions 1280 by 720.
C10_Witness ==
    /\ Len(requests) >= 1
    /\ options.aspectRatio = "CUSTOM"
    /\ options.width = Num(1280)
    /\ options.height = Num(720)
    /\ SentRatio(1) = "1280:720"

\* ---------------------------------------------------------------------------
\* C11: for a custom ratio the payload carries "{width}:{height}" only when
\* width and height are both positive integers; for every other pair (zero,
\* negative or absent in either position) the ratio sent is "1:1".
C11_CustomRatioOnlyWhenPositive ==
    \A k \in 1..Len(requests) :
       options.aspectRatio = "CUSTOM" =>
          LET w == options.width
              h == options.height
              positive == /\ w # Undefined /\ w.v > 0
                          /\ h # Undefined /\ h.v > 0
          IN  SentRatio(k) = IF positive
                               THEN DimText(w.v) \o ":" \o DimText(h.v)
                               ELSE "1:1"

\* ---------------------------------------------------------------------------
\* C12: the image model is a function of the resolution tier alone: the
\* baseline tier "1K" always uses the fast model and the tiers "2K" and "4K"
\* always use the higher-capability model, whatever the other options are,
\* and every call of one batch is issued with that same model.
C12_ModelByTier ==
    /\ \A k \in 1..Len(requests) :
          requests[k].model =
             CASE options.resolution = "1K" -> "gemini-2.5-flash-image"
               [] options.resolution = "2K" -> "gemini-3-pro-image-preview"
               [] options.resolution = "4K" -> "gemini-3-pro-image-preview"
    /\ \A j, k \in 1..Len(requests) : requests[j].model = requests[k].model

\* C12 witness: every call of a batch of at least two issued for tier "4K",
\* all with the higher-capability model.
C12_Witness ==
    /\ count >= 2
    /\ Len(requests) = count
    /\ options.resolution = "4K"
    /\ \A k \in 1..count : requests[k].model = "gemini-3-pro-image-preview"

\* ---------------------------------------------------------------------------
\* C13: the image-size field is present in a call's payload exactly when the
\* call goes to the higher-capability model; no call to the baseline model
\* carries it; when present it equals the requested resolution tier.
C13_SizeFieldIffProModel ==
    \A k \in 1..Len(requests) :
       LET hasSize == "imageSize" \in DOMAIN requests[k].config.imageConfig
       IN  /\ hasSize <=> requests[k].model = "gemini-3-pro-image-preview"
           /\ requests[k].model = "gemini-2.5-flash-image" => ~hasSize
           /\ hasSize => requests[k].config.imageConfig.imageSize = options.resolution
           /\ requests[k].model \in {"gemini-2.5-flash-image", "gemini-3-pro-image-preview"}

\* C13 witness: a call to the higher-capability model carrying image size
\* "2K".
C13_Witness ==
    /\ Len(requests) >= 1
    /\ options.resolution = "2K"
    /\ requests[1].model = "gemini-3-pro-image-preview"
    /\ requests[1].config.imageConfig.imageSize = "2K"

\* ---------------------------------------------------------------------------
\* C14: each call's result is built from the first part, in response order,
\* that carries inline binary image data, with that part's media type or,
\* when it has none, the default image type; when no part carries inline
\* image data (a response with no candidates or no parts included) the call
\* fails with the no-image-data error.
C14_FirstInlinePart ==
    \A i \in 1..count :
       (callResponse[i] # Undefined /\ callResponse[i].kind = "response") =>
          LET ps == callResponse[i].parts
              carriers == { k \in 1..Len(ps) : ps[k].hasInline /\ ps[k].data # "" }
          IN  IF ~callResponse[i].hasParts \/ carriers = {}
                THEN /\ callState[i] = "rejected"
                     /\ callValue[i].name = "No image data found in response"
                ELSE LET k == CHOOSE m \in carriers : \A n \in carriers : m <= n
                         mime == IF ps[k].mimeType = "" THEN "image/png"
                                                        ELSE ps[k].mimeType
                     IN  /\ callState[i] = "fulfilled"
                         /\ callValue[i] = "data:" \o mime \o ";base64," \o ps[k].data

\* C14 witness: a call answered with a jpeg part followed by a png part has
\* returned the jpeg part's data under the jpeg media type.
C14_Witness ==
    /\ callResponse[1] = Response(<<ResponsePart(TRUE, "9j4A", "image/jpeg", ""),
                                    ResponsePart(TRUE, "R0lG", "image/png", "")>>)
    /\ callState[1] = "fulfilled"
    /\ callValue[1] = "data:image/jpeg;base64,9j4A"

\* The asset reference expected for each response of the batch slice.
ExpectedReference(r) ==
    CASE r = RespPng  -> "data:image/png;base64,R0lG"
      [] r = RespJpeg -> "data:image/jpeg;base64,9j4A"

\* ---------------------------------------------------------------------------
\* C15: when all `count` calls succeed, generateImages returns exactly `count`
\* asset references, the i-th built from the i-th call's response with that
\* response's media type, whatever the order in which the calls completed; a
\* batch of one answered with one image/png part returns one reference
\* carrying image/png.
C15_ResultsInCallOrder ==
    /\ (\A i \in 1..count : callState[i] = "fulfilled") =>
          /\ imgResult.status = "fulfilled"
          /\ Len(imgResult.value) = count
          /\ \A i \in 1..count :
                imgResult.value[i] = ExpectedReference(callResponse[i])
    /\ (count = 1 /\ callResponse[1] = RespPng) =>
          imgResult = Fulfilled(<<"data:image/png;base64,R0lG">>)

\* C15 witness: a batch of two whose second call (jpeg) completed before its
\* first (png) has returned the png reference first, the jpeg one second.
C15_Witness ==
    /\ count = 2
    /\ settleOrder = <<2, 1>>
    /\ callResponse[1] = RespPng
    /\ callResponse[2] = RespJpeg
    /\ imgResult = Fulfilled(<<"data:image/png;base64,R0lG",
                               "data:image/jpeg;base64,9j4A">>)

\* ---------------------------------------------------------------------------
\* C16: the gate triggers the selection flow only when the selection
\* mechanism exists and the presence check has reported no credential, and
\* then does not return until the flow has completed; when a credential is
\* already selected it triggers nothing; when no mechanism exists it performs
\* neither the check nor the trigger and completes without error.
C16_GateTriggersOnlyWhenNeeded ==
    LET g == gatePc["video"]
    IN  /\ ~aistudio => /\ hasKeyCalls = 0
                        /\ openCalls = 0
                        /\ gateInvoked["video"] = 1 => g = "done"
        /\ openCalls <= hasKeyCalls
        /\ g = "openSelectKey" => (aistudio /\ ~keySelected /\ openCalls = 1)
        /\ (keySelected /\ openReturns = 0) => openCalls = 0
        /\ g = "done" => openReturns = openCalls
        /\ vpc \notin {"start", "ensureApiKey"} => g = "done"
        /\ (g = "done" /\ aistudio) => hasKeyCalls = 1

\* C16 witness: the gate found no credential, triggered the flow, returned
\* after the flow completed, and the job was then submitted.
C16_Witness ==
    /\ aistudio
    /\ hasKeyCalls = 1
    /\ openCalls = 1
    /\ openReturns = 1
    /\ gatePc["video"] = "done"
    /\ Len(submits) = 1

\* ---------------------------------------------------------------------------
\* C17: with the gate invoked twice concurrently while no credential is
\* selected, under every interleaving the selection flow is triggered at
\* least once (twice is possible), and once both invocations have returned
\* both callers observe a selected credential.
C17_ConcurrentGate ==
    /\ openCalls <= 2
    /\ \A c \in Callers : gatePc[c] = "done" => (openCalls >= 1 /\ keySelected)
    /\ (ipc \notin {"start", "ensureApiKey"} /\ vpc \notin {"start", "ensureApiKey"})
          => /\ \A c \in Callers : gateInvoked[c] = 1 /\ gatePc[c] = "done"
             /\ openCalls \in {1, 2}
             /\ openReturns = openCalls
             /\ keySelected

\* C17 witness: both invocations found no credential, each triggered the
\* flow, and both callers have gone on past the gate.
C17_Witness ==
    /\ hasKeyCalls = 2
    /\ openCalls = 2
    /\ gatePc["image"] = "done"
    /\ gatePc["video"] = "done"
    /\ keySelected
    /\ Len(requests) = 1
    /\ Len(submits) = 1

\* The backend has answered n calls of the job and every answer was a handle
\* that is not done.
AllNotDone(n) ==
    /\ Len(received) = n
    /\ \A k \in 1..n : ~received[k].done /\ ~received[k].failed

\* ---------------------------------------------------------------------------
\* C18: generateVideo puts no bound on the number of poll cycles: as long as
\* the backend keeps answering with a handle that is not done and no call
\* fails, the driver sleeps and polls again and neither returns nor rejects;
\* it terminates only once some handle reports done or some backend call has
\* failed.
C18_PollsWithoutBound ==
    /\ [](vidResult.status # "pending" =>
            \E k \in 1..Len(received) : received[k].done \/ received[k].failed)
    /\ [](\A n \in 1..(MaxPolls + 1) :
            AllNotDone(n) => /\ vidResult.status = "pending"
                             /\ vpc \in {"loop", "sleep", "getVideosOperation"})
    /\ \A n \in 1..MaxPolls : AllNotDone(n) ~> (Len(polls) >= n)

\* C18 witness: the submission and every status refresh explored have been
\* answered not done, and the driver is still in its loop.
C18_Witness ==
    /\ AllNotDone(MaxPolls + 1)
    /\ Len(polls) = MaxPolls
    /\ Len(sleeps) = MaxPolls
    /\ vidResult.status = "pending"

\* The error with which the backend rejected call i of a pipeline (for the
\* video driver, call 0 is the submission and call k the k-th status refresh).
TransportError(i) == [name |-> "BackendCallError", call |-> i]

\* The image calls the backend rejected, and the video calls it rejected.
FailedImageCalls ==
    { i \in 1..count : callResponse[i] # Undefined /\ callResponse[i].kind = "error" }

FailedVideoCalls == { k \in 1..Len(received) : received[k].failed }

Logged(e) == \E n \in 1..Len(errorLog) : errorLog[n] = e

\* No backend call is issued again: one generateContent per batch slot, one
\* submission, one status refresh per handle polled, and nothing after a
\* failed video call.
NoCallReissued ==
    /\ Len(requests) <= count
    /\ Len(submits) <= 1
    /\ \A j, k \in 1..Len(polls) : j # k => polls[j] # polls[k]
    /\ \A k \in FailedVideoCalls :
          /\ k = Len(received)
          /\ Len(polls) = k - 1
          /\ outstanding = 0

\* C19 as stated: in both entry points no backend call is re-issued after it
\* failed, and every transport failure raised by a backend call reaches the
\* caller as a rejection carrying that same error unchanged, after it has been
\* logged.
C19_EveryFailureReachesCaller ==
    /\ NoCallReissued
    /\ \A i \in FailedImageCalls :
          /\ Logged(TransportError(i))
          /\ imgResult = Rejected(TransportError(i))
    /\ \A k \in FailedVideoCalls :
          /\ Logged(TransportError(k - 1))
          /\ vidResult = Rejected(TransportError(k - 1))

\* C19 amended: in both entry points no backend call is re-issued after it
\* failed; every transport failure raised by a backend call is logged
\* unchanged and leaves the caller with a rejection; that rejection carries
\* the same originating error unchanged, except that an image batch already
\* rejected by an earlier failure keeps the earlier failure's error.
C19_FirstFailureUnchanged ==
    /\ NoCallReissued
    /\ \A i \in FailedImageCalls :
          /\ Logged(TransportError(i))
          /\ imgResult.status = "rejected"
          /\ (\A n \in 1..Len(settleOrder) :
                 (callState[settleOrder[n]] = "rejected"
                    => \E m \in 1..n : settleOrder[m] = i))
                => imgResult = Rejected(TransportError(i))
    /\ imgResult.status = "rejected" =>
          /\ Logged(imgResult.reason)
          /\ callValue[imgResult.reason.call] = imgResult.reason
    /\ \A k \in FailedVideoCalls :
          /\ Logged(TransportError(k - 1))
          /\ vidResult = Rejected(TransportError(k - 1))

\* C19 witness: in a batch of two the backend rejected the second call first
\* and the first call afterwards; both errors are logged in that order and
\* the caller holds the second call's error.
C19_Witness ==
    /\ count = 2
    /\ settleOrder = <<2, 1>>
    /\ FailedImageCalls = {1, 2}
    /\ errorLog = <<TransportError(2), TransportError(1)>>
    /\ imgResult = Rejected(TransportError(2))

\* ---------------------------------------------------------------------------
\* C20: the reference-image list held by the image generator, and the list
\* it passes to generateImages, never has more than 10 entries, after any
\* sequence or interleaving of uploads and removals, uploads started while an
\* earlier upload's file read is still in progress included.
C20_AtMostTenReferences ==
    /\ Len(refImages) <= 10
    /\ Len(RefsPassed) <= 10

\* ---------------------------------------------------------------------------
\* C21: the image generator never calls generateImages with an empty prompt
\* and no context image: a click on generate in that state issues no backend
\* call and changes neither the loading flag, the current batch nor the
\* history.
C21_NoGenerateWithoutInput ==
    /\ [](genCalls > 0 => (options.prompt # "" \/ options.contextImage # Undefined))
    /\ [][(clicks' = clicks + 1 /\ prompt = "" /\ contextImage = Null) =>
             /\ loading' = loading
             /\ currentBatch' = currentBatch
             /\ history' = history
             /\ genCalls' = genCalls
             /\ requests' = requests
             /\ ipc' = ipc
             /\ imgResult' = imgResult]_vars

\* C21 witness: with a reference image uploaded, but an empty prompt and no
\* context image, generate was clicked; no call was made.
C21_Witness ==
    /\ clicks = 1
    /\ genCalls = 0
    /\ Len(refImages) = 1
    /\ reading = 0
    /\ prompt = ""
    /\ contextImage = Null
    /\ history = <<>>
    /\ ~loading

\* ---------------------------------------------------------------------------
\* C22 as stated: when generateImages or generateVideo rejects, the
\* presentation layer keeps no partial result: for images the history is
\* what it was before the generate action and the current batch is empty;
\* for video the displayed video reference is empty; and in both cases, as
\* after a success, the loading flag is eventually reset to false, so that a
\* new generation can be started. (After the success of an image batch the
\* handler awaits the auto-saves: the reset is required provided none of them
\* stays pending for ever, that is, under weak fairness of
\* SaveToDirectorySettles, which is enabled exactly while gpc is
\* "saveToDirectory".)
C22_NoPartialStateAfterRejection ==
    /\ []((genCalls > 0 /\ imgResult.status = "rejected") =>
             /\ history = historyBefore
             /\ currentBatch = <<>>
             /\ gpc = "idle" => ~loading)
    /\ []((vidCalls > 0 /\ vidResult.status = "rejected") =>
             /\ videoUrl = Null
             /\ vgpc = "idle" => ~vloading)
    /\ (gpc = "generateImages" /\ imgResult.status = "rejected") ~> ~loading
    /\ (vgpc = "generateVideo" /\ vidResult.status # "pending") ~> ~vloading
    /\ \/ <>[](gpc = "saveToDirectory")
       \/ ((gpc = "generateImages" /\ imgResult.status = "fulfilled") ~> ~loading)

\* The items of s that are also in t, in the order of s.
Kept(s, t) == SelectSeq(s, LAMBDA i : \E k \in 1..Len(t) : t[k] = i)

\* C22, corrected: when generateImages or generateVideo rejects, the
\* presentation layer keeps no partial result: for images the history is
\* what it was before the generate action, less the items the user deleted
\* while the call was running or afterwards (only a deletion or the commit
\* of a successful batch ever changes it), and the current batch is empty;
\* for video the displayed video reference is empty; and in both cases, as
\* after a success, the loading flag is eventually reset to false, for
\* images by the very step that receives the rejection. (After the success
\* of an image batch: provided no auto-save stays pending for ever, as
\* above.)
C22_RejectionAddsNothing ==
    /\ []((genCalls > 0 /\ imgResult.status = "rejected") =>
             /\ history = Kept(historyBefore, history)
             /\ currentBatch = <<>>
             /\ gpc = "idle" => ~loading)
    /\ [][history' # history =>
             \/ /\ edits' = edits + 1
                /\ history' = Kept(history, history')
             \/ /\ imgResult.status = "fulfilled"
                /\ gpc # "idle" /\ gpc' = "idle"]_vars
    /\ []((vidCalls > 0 /\ vidResult.status = "rejected") =>
             /\ videoUrl = Null
             /\ vgpc = "idle" => ~vloading)
    /\ [][(gpc = "generateImages" /\ imgResult.status = "rejected" /\ gpc' # gpc) =>
             (gpc' = "idle" /\ ~loading')]_vars
    /\ (gpc = "generateImages" /\ imgResult.status = "rejected") ~> ~loading
    /\ (vgpc = "generateVideo" /\ vidResult.status # "pending") ~> ~vloading
    /\ \/ <>[](gpc = "saveToDirectory")
       \/ ((gpc = "generateImages" /\ imgResult.status = "fulfilled") ~> ~loading)

\* C22 witness: a second batch was rejected after a first had succeeded and
\* the user had deleted the first batch's item from the history view while
\* the second call was running; the history is what it was before the
\* second generate action less the deleted item, the current batch is empty
\* and the loading flag is reset.
C22_Witness ==
    /\ genCalls = 2
    /\ imgResult.status = "rejected"
    /\ gpc = "idle"
    /\ Len(historyBefore) = 1
    /\ history = <<>>
    /\ currentBatch = <<>>
    /\ ~loading

\* ---------------------------------------------------------------------------
\* C23: every image asset recorded after a successful batch carries the
\* resolved aspect ratio, the ratio string that was sent to the backend for
\* that batch, for every combination of ratio choice and custom width and
\* height (custom dimensions that made the request fall back to "1:1"
\* included), and carries explicit width and height exactly when the ratio
\* is custom.
C23_ItemsCarrySentRatio ==
    /\ \A k \in 1..Len(currentBatch) :
          /\ currentBatch[k].aspectRatio = requests[k].config.imageConfig.aspectRatio
          /\ currentBatch[k].width # Undefined <=> options.aspectRatio = "CUSTOM"
          /\ currentBatch[k].height # Undefined <=> options.aspectRatio = "CUSTOM"
          /\ history[k] = currentBatch[k]
    /\ Len(currentBatch) <= Len(history)
====
